---- MODULE Spec2Model ----
(***************************************************************************)
(* VibeYui: the heartbeat engagement engine (src/heartbeat), the scoped    *)
(* context store (src/context, src/memory), the tool-calling agent loop    *)
(* (src/agent) and the message workflow (src/core), as state machines.     *)
(*                                                                         *)
(* Text is a sequence of one-character strings, so that strip(), lower()   *)
(* and the regular expressions of the source are computed, not assumed.    *)
(* A CJK character is written by its code point ("u5929").                 *)
(***************************************************************************)
EXTENDS Integers, Sequences, FiniteSets, TLC

\* ------------------------------------------------------------------ state

\* HeartbeatMonitor, HeartbeatSQLiteStore and the clock
VARIABLES
    monitors,   \* state_scope -> the fields of the HeartbeatMonitor of that scope
    created,    \* the scopes whose monitor has been constructed
    hbStore,    \* HeartbeatSQLiteStore: scope -> row of heartbeat_state
    now,        \* int(time_fn())
    hbCall,     \* the last call on a monitor: its inputs, the state before, the outcome
    hbCalls     \* the number of calls made so far

hbVars == <<monitors, created, hbStore, now, hbCall, hbCalls>>

\* AgentService
VARIABLES
    max_steps,      \* AgentService.max_steps
    mcp_client,     \* TRUE when AgentService.mcp_client is not None
    cached_tools,   \* TRUE when AgentService._cached_tools is not empty
    pc,             \* "idle", "loop" (inside the for loop of _run_tool_loop), "done"
    call,           \* the arguments of the running process_input call
    step,           \* rounds of the for loop started so far
    gen_calls,      \* calls of llm_service.process_input_with_system in this call
    tool_calls,     \* calls of mcp_client.call_tool in this call
    direct_calls,   \* calls of llm_service.process_input in this call
    prompt,         \* which prompt the next generation call is given
    round,          \* the last round: the parsed output, the tool outcome, what it was
    result          \* what process_input returned; NoResult before

loopVars == <<max_steps, mcp_client, cached_tools, pc, call, step, gen_calls, tool_calls,
              direct_calls, prompt, round, result>>

\* MemoryPool and ContextEngine
VARIABLES
    recent_limit,               \* ContextEngine.recent_limit
    records_by_scope,           \* MemoryPool._records_by_scope: key -> the log of the scope
    recent_context_by_scope,    \* ContextEngine._recent_context_by_scope: key -> window
    ctxCall,                    \* the last call on the context engine
    ctxCalls                    \* the number of calls made so far

ctxVars == <<recent_limit, records_by_scope, recent_context_by_scope, ctxCall, ctxCalls>>

\* MessageWorkflow.process
VARIABLES
    wfPc,       \* the position inside process: "idle", ..., "done"
    wf,         \* the arguments and locals of the running process call
    wfTrace,    \* the calls made on the ports and the events emitted, in order
    wfResult,   \* what process returned
    wfCalls,    \* the number of process calls started so far
    raising_hooks,  \* the hooks of MessageWorkflow.hooks whose on_event raises
    hook_seen,      \* hook -> the events of this call handed to its on_event
    store_down      \* TRUE when HeartbeatSQLiteStore.load and save raise sqlite3.Error

wfVars == <<wfPc, wf, wfTrace, wfResult, wfCalls, raising_hooks, hook_seen, store_down>>

\* Two threads inside ContextEngine._remember for one scope
VARIABLES
    heap,        \* the list objects made for windows: object id -> its items
    window_ref,  \* _recent_context_by_scope[key]: the id of the list, 0 when absent
    threads,     \* thread -> its position in _remember, its item, its local `history`
    log0         \* the log of the scope when the two calls started

concVars == <<heap, window_ref, threads, log0>>

\* The directory of a MemoryPool
VARIABLES
    files_by_scope  \* key -> the text of <key>.jsonl

poolVars == <<files_by_scope>>

\* The keys a ContextEngine uses
VARIABLES
    heartbeat_monitors, \* ContextEngine._heartbeat_monitors: key -> state_scope of the monitor
    keyCall,            \* the last call on the engine and the keys it used
    keyCalls            \* the number of calls made so far

keyVars == <<heartbeat_monitors, keyCall, keyCalls>>

\* AgentService._parse_json on one model output
VARIABLES
    llm_output,     \* the text the model returned, and the arguments written into it
    parsed_output   \* what _parse_json returned for it; NotParsed before

parseVars == <<llm_output, parsed_output>>

\* Router: the allow-list of a router and the last should_process_message call
VARIABLES router_allowed_group_ids, routerCall
routerVars == <<router_allowed_group_ids, routerCall>>

vars == <<hbVars, loopVars, ctxVars, wfVars, concVars, poolVars, keyVars, parseVars,
          routerVars>>

\* ------------------------------------------------------------------ text

Whitespace == {" ", "\n"}
UpperChars == {"A", "B"}
LowerChars == {"a", "b", "c", "d", "e", "f", "g", "k", "l", "o", "p", "q", "r", "s", "t", "u"}
DigitChars == {"1", "2"}
\* [一-鿿]
CJKChars == {"u4ECA", "u5929", "u6C14", "u597D"}

\* str.lower() on one character
LowerChar(ch) == IF ch = "A" THEN "a" ELSE IF ch = "B" THEN "b" ELSE ch

Lower(s) == [i \in 1..Len(s) |-> LowerChar(s[i])]

RECURSIVE LStrip(_)
LStrip(s) == IF s = <<>> THEN s
             ELSE IF Head(s) \in Whitespace THEN LStrip(Tail(s)) ELSE s

RECURSIVE RStrip(_)
RStrip(s) == IF s = <<>> THEN s
             ELSE IF s[Len(s)] \in Whitespace THEN RStrip(SubSeq(s, 1, Len(s) - 1)) ELSE s

\* str.strip()
Strip(s) == RStrip(LStrip(s))

\* ------------------------------------------------- HeartbeatMonitor: parameters

max_heartbeat == 100
wakeup_growth == 6
idle_growth == 2
tense_boost == 24
tense_floor == 60
\* The configured hold (config "heartbeat.tense_hold_seconds"; the default is
\* 15 * 60). A small value lets the clock of the model pass a deadline.
tense_hold_seconds == 2

\* The clock of the model, int(self._time_fn()), runs from 1 to MaxTime.
MaxTime == 3

Max2(a, b) == IF a >= b THEN a ELSE b
Min2(a, b) == IF a <= b THEN a ELSE b

\* ------------------------------------------------- HeartbeatMonitor: state

\* The fields _heartbeat, _tense, _focus_text, _tense_until_ts of one monitor.
IdleMonitor == [heartbeat |-> 0, tense |-> FALSE, focus_text |-> <<>>, tense_until_ts |-> 0]

\* A row of table heartbeat_state; exists = FALSE stands for "no row".
NoRow == [exists |-> FALSE, heartbeat |-> 0, is_tense |-> FALSE, focus_text |-> <<>>,
          tense_until_ts |-> 0]

\* _drop_to_zero (a variant that keeps the focus, for comparison)
drop_to_zero_keep_focus(m) == [IdleMonitor EXCEPT !.focus_text = m.focus_text]

drop_to_zero(m) == IdleMonitor

\* _set_tense (a variant that keeps the old focus, for comparison)
set_tense_keep_focus(m, focus) == [m EXCEPT !.tense = TRUE]

set_tense(m, focus) == [m EXCEPT !.tense = TRUE, !.focus_text = Strip(focus)]

\* _mark_tense_hold (a variant that starts no hold, for comparison)
mark_tense_hold_none(m, t) == m

mark_tense_hold(m, t) ==
    [m EXCEPT !.tense_until_ts = t + Max2(1, tense_hold_seconds)]

\* _is_hold_active (a variant for which a hold without deadline never ends,
\* for comparison)
is_hold_active_open(m, t) == m.tense_until_ts = 0 \/ t < m.tense_until_ts

is_hold_active(m, t) == m.tense_until_ts > 0 /\ t < m.tense_until_ts

\* _refresh_tense_flag (a variant that never resets, for comparison)
refresh_tense_flag_never(m, t) == m

refresh_tense_flag(m, t) ==
    IF m.tense /\ m.tense_until_ts > 0 /\ ~is_hold_active(m, t)
    THEN drop_to_zero(m) ELSE m

\* _grow_idle_heartbeat (a variant without the wakeup step, for comparison)
grow_idle_heartbeat_add(m) ==
    [m EXCEPT !.heartbeat = Min2(max_heartbeat, m.heartbeat + idle_growth)]

grow_idle_heartbeat(m) ==
    IF m.heartbeat <= 0
    THEN [m EXCEPT !.heartbeat = Min2(max_heartbeat, wakeup_growth)]
    ELSE [m EXCEPT !.heartbeat = Min2(max_heartbeat, m.heartbeat + idle_growth)]

\* _raise_heartbeat (defined by the class, called by none of its methods)
raise_heartbeat(m, delta) ==
    [m EXCEPT !.heartbeat = Min2(max_heartbeat, Max2(m.heartbeat, tense_floor) + delta)]

\* re.findall(r"[a-z0-9_]{2,}", lowered): the maximal runs of word characters
\* that are at least two characters long.
WordChars == LowerChars \cup DigitChars \cup {"_"}

IsRun(s, i, j) ==
    /\ \A k \in i..j : s[k] \in WordChars
    /\ (i = 1 \/ s[i - 1] \notin WordChars)
    /\ (j = Len(s) \/ s[j + 1] \notin WordChars)

\* _collect_signals
collect_signals(text) ==
    LET lowered == Lower(text)
    IN  [words |-> {SubSeq(lowered, i, j) : <<i, j>> \in
                      {p \in (1..Len(lowered)) \X (1..Len(lowered)) :
                          p[2] - p[1] + 1 >= 2 /\ IsRun(lowered, p[1], p[2])}},
         cjk_chars |-> {lowered[i] : i \in {k \in 1..Len(lowered) : lowered[k] \in CJKChars}}]

\* _is_related
is_related(m, message) ==
    IF m.focus_text = <<>> THEN TRUE
    ELSE LET msg == collect_signals(message)
             focus == collect_signals(m.focus_text)
         IN  IF msg.words # {} /\ focus.words # {} /\ (msg.words \cap focus.words) # {}
             THEN TRUE
             ELSE Cardinality(msg.cjk_chars \cap focus.cjk_chars) >= 2

\* HeartbeatState(...) as _persist hands it to HeartbeatSQLiteStore.save
RowOf(m) == [exists |-> TRUE, heartbeat |-> m.heartbeat, is_tense |-> m.tense,
             focus_text |-> m.focus_text, tense_until_ts |-> m.tense_until_ts]

\* __post_init__ (a variant that takes the stored heartbeat as it is, for
\* comparison)
LoadMonitor_unclamped(row, t) ==
    IF ~row.exists THEN IdleMonitor
    ELSE refresh_tense_flag(
             [heartbeat |-> row.heartbeat,
              tense |-> row.is_tense,
              focus_text |-> Strip(row.focus_text),
              tense_until_ts |-> row.tense_until_ts], t)

\* __post_init__ with a state store: the monitor as loaded from `row` at time t
LoadMonitor(row, t) ==
    IF ~row.exists THEN IdleMonitor
    ELSE refresh_tense_flag(
             [heartbeat |-> Min2(max_heartbeat, Max2(0, row.heartbeat)),
              tense |-> row.is_tense,
              focus_text |-> Strip(row.focus_text),
              tense_until_ts |-> row.tense_until_ts], t)

\* should_invoke_llm (a variant that tests is_at_message before the empty
\* message, for comparison)
should_invoke_llm_at_first(m, message, is_at_message, t, r) ==
    LET clean == Strip(message)
    IN  IF is_at_message
        THEN [mon |-> mark_tense_hold(set_tense(m, clean), t),
              persisted |-> TRUE, result |-> TRUE, draws |-> 0]
        ELSE IF clean = <<>>
        THEN [mon |-> m, persisted |-> FALSE, result |-> FALSE, draws |-> 0]
        ELSE LET m1 == refresh_tense_flag(m, t)
             IN  IF m1.tense
                 THEN IF is_hold_active(m1, t)
                      THEN [mon |-> IF is_related(m1, clean)
                                    THEN mark_tense_hold(set_tense(m1, clean), t)
                                    ELSE m1,
                            persisted |-> TRUE, result |-> TRUE, draws |-> 0]
                      ELSE [mon |-> drop_to_zero(m1),
                            persisted |-> TRUE, result |-> FALSE, draws |-> 0]
                 ELSE LET m2 == grow_idle_heartbeat(m1)
                      IN  IF r < m2.heartbeat
                          THEN [mon |-> set_tense(m2, clean),
                                persisted |-> TRUE, result |-> TRUE, draws |-> 1]
                          ELSE [mon |-> m2,
                                persisted |-> TRUE, result |-> FALSE, draws |-> 1]

\* should_invoke_llm: the monitor after the call, whether it persisted, the
\* value returned, and the number of random values drawn. r is the draw
\* self._rng.random() in [0, 1), as floor(r * max_heartbeat).
should_invoke_llm(m, message, is_at_message, t, r) ==
    LET clean == Strip(message)
    IN  IF clean = <<>>
        THEN [mon |-> m, persisted |-> FALSE, result |-> FALSE, draws |-> 0]
        ELSE IF is_at_message
        THEN [mon |-> mark_tense_hold(set_tense(m, clean), t),
              persisted |-> TRUE, result |-> TRUE, draws |-> 0]
        ELSE LET m1 == refresh_tense_flag(m, t)
             IN  IF m1.tense
                 THEN IF is_hold_active(m1, t)
                      THEN [mon |-> IF is_related(m1, clean)
                                    THEN mark_tense_hold(set_tense(m1, clean), t)
                                    ELSE m1,
                            persisted |-> TRUE, result |-> TRUE, draws |-> 0]
                      ELSE [mon |-> drop_to_zero(m1),
                            persisted |-> TRUE, result |-> FALSE, draws |-> 0]
                 ELSE LET m2 == grow_idle_heartbeat(m1)
                      IN  \* r < heartbeat / max_heartbeat
                          IF r < m2.heartbeat
                          THEN [mon |-> set_tense(m2, clean),
                                persisted |-> TRUE, result |-> TRUE, draws |-> 1]
                          ELSE [mon |-> m2,
                                persisted |-> TRUE, result |-> FALSE, draws |-> 1]

\* on_llm_invoked (a variant that takes the trigger alone as focus, for
\* comparison)
on_llm_invoked_trigger_only(m, trigger_message, reply, t) ==
    mark_tense_hold(set_tense(m, Strip(trigger_message)), t)

on_llm_invoked(m, trigger_message, reply, t) ==
    LET merged_focus == Strip(Strip(trigger_message) \o <<" ">> \o Strip(reply))
    IN  mark_tense_hold(set_tense(m, merged_focus), t)

\* ------------------------------------------------- HeartbeatMonitor: machine

\* state_scope of a monitor: the key of its row in the store
ScopeDefault == <<"d", "e", "f", "a", "u", "l", "t">>
ScopeGroup1 == <<"q", "q", "_", "g", "r", "o", "u", "p", "_", "1">>
ScopeGroup2 == <<"q", "q", "_", "g", "r", "o", "u", "p", "_", "2">>
ScopeKeys == {ScopeDefault, ScopeGroup1, ScopeGroup2}
\* the scopes a monitor is constructed for on its own
MonitorScopes == {ScopeDefault, ScopeGroup1}

\* The number of calls made on a monitor is capped.
MaxCalls == 2


NoCall == [op |-> "none", scope |-> ScopeDefault, message |-> <<>>, reply |-> <<>>,
           is_at_message |-> FALSE, at |-> 0, pre |-> IdleMonitor, preRow |-> NoRow,
           result |-> FALSE, persisted |-> FALSE, draws |-> 0, r |-> -1]

\* Messages handed to the monitor: empty, blank, words, text that needs strip()
\* and lower(), a single letter, CJK text.
MsgEmpty == <<>>
MsgBlank == <<" ", " ">>
MsgAb == <<"a", "b">>
MsgAbPadded == <<" ", "A", "B", " ">>
MsgCd == <<"c", "d">>
MsgJinTianTianQi == <<"u4ECA", "u5929", "u5929", "u6C14">>
MsgTianQiHao == <<"u5929", "u6C14", "u597D">>
MsgTian == <<"u5929">>
HBMessages == {MsgEmpty, MsgBlank, MsgAbPadded, MsgCd, MsgJinTianTianQi, MsgTianQiHao,
               MsgTian}
HBTriggers == {MsgAbPadded, MsgTian}

ReplyOk == <<"o", "k">>
ReplyCdPadded == <<" ", "c", "d", "\n">>
HBReplies == {ReplyOk, ReplyCdPadded, MsgBlank}

\* self._rng.random(), as floor(r * max_heartbeat)
Draws == {0, 6, 99}

\* Rows a store may hold when a monitor is constructed: none, an idle row, a
\* legacy tense row without deadline, a hold that is over at time 1, a hold that
\* is running, a heartbeat out of range with unstripped focus.
InitialRows ==
    {NoRow,
     [exists |-> TRUE, heartbeat |-> 8, is_tense |-> FALSE, focus_text |-> <<>>,
      tense_until_ts |-> 0],
     [exists |-> TRUE, heartbeat |-> 70, is_tense |-> TRUE, focus_text |-> MsgAb,
      tense_until_ts |-> 0],
     [exists |-> TRUE, heartbeat |-> 40, is_tense |-> TRUE, focus_text |-> MsgCd,
      tense_until_ts |-> 1],
     [exists |-> TRUE, heartbeat |-> 40, is_tense |-> TRUE, focus_text |-> MsgJinTianTianQi,
      tense_until_ts |-> 3],
     [exists |-> TRUE, heartbeat |-> 130, is_tense |-> FALSE, focus_text |-> MsgAbPadded,
      tense_until_ts |-> 0]}

\* _persist (a variant that saves the flag and the focus but not the deadline,
\* for comparison)
persist_no_deadline(store, scope, m) ==
    [store EXCEPT ![scope] = [RowOf(m) EXCEPT !.tense_until_ts = 0]]

persist(store, scope, m) == [store EXCEPT ![scope] = RowOf(m)]

\* HeartbeatMonitor(state_store=..., state_scope=scope) over a store that holds
\* `row` for the scope.
InitHB ==
    /\ now = 1
    /\ \E scope \in MonitorScopes,
          row \in InitialRows \cup
                  \* a heartbeat below zero; a running hold without focus
                  {[exists |-> TRUE, heartbeat |-> -5, is_tense |-> FALSE,
                    focus_text |-> <<>>, tense_until_ts |-> 0],
                   [exists |-> TRUE, heartbeat |-> 50, is_tense |-> TRUE,
                    focus_text |-> <<>>, tense_until_ts |-> 3]} :
          /\ hbStore = [s \in ScopeKeys |-> IF s = scope THEN row ELSE NoRow]
          /\ monitors = [s \in ScopeKeys |->
                            IF s = scope THEN LoadMonitor(row, 1) ELSE IdleMonitor]
          /\ created = {scope}
    /\ hbCall = NoCall
    /\ hbCalls = 0

\* monitor.should_invoke_llm(message, is_at_message=...)
ShouldInvokeLLM ==
    \E scope \in created, message \in HBMessages, is_at_message \in BOOLEAN, r \in Draws :
        LET out == should_invoke_llm(monitors[scope], message, is_at_message, now, r)
        IN  /\ hbCalls < MaxCalls
            /\ hbCalls' = hbCalls + 1
            /\ monitors' = [monitors EXCEPT ![scope] = out.mon]
            /\ hbStore' = IF out.persisted THEN persist(hbStore, scope, out.mon) ELSE hbStore
            /\ hbCall' = [op |-> "should_invoke_llm", scope |-> scope, message |-> message,
                          reply |-> <<>>, is_at_message |-> is_at_message, at |-> now,
                          pre |-> monitors[scope], preRow |-> hbStore[scope],
                          result |-> out.result, persisted |-> out.persisted,
                          draws |-> out.draws, r |-> IF out.draws = 1 THEN r ELSE -1]
            /\ UNCHANGED <<created, now>>
            /\ UNCHANGED <<loopVars, ctxVars, wfVars, concVars, poolVars, keyVars, parseVars, routerVars>>

\* monitor.on_llm_invoked(trigger_message, reply)
OnLLMInvoked ==
    \E scope \in created, trigger \in HBTriggers, reply \in HBReplies :
        LET m == on_llm_invoked(monitors[scope], trigger, reply, now)
        IN  /\ hbCalls < MaxCalls
            /\ hbCalls' = hbCalls + 1
            /\ monitors' = [monitors EXCEPT ![scope] = m]
            /\ hbStore' = persist(hbStore, scope, m)
            /\ hbCall' = [op |-> "on_llm_invoked", scope |-> scope, message |-> trigger,
                          reply |-> reply, is_at_message |-> FALSE, at |-> now,
                          pre |-> monitors[scope], preRow |-> hbStore[scope],
                          result |-> FALSE, persisted |-> TRUE, draws |-> 0, r |-> -1]
            /\ UNCHANGED <<created, now>>
            /\ UNCHANGED <<loopVars, ctxVars, wfVars, concVars, poolVars, keyVars, parseVars, routerVars>>

\* The clock advances between calls.
Tick ==
    /\ now < MaxTime
    /\ now' = now + 1
    /\ UNCHANGED <<monitors, created, hbStore, hbCall, hbCalls>>
    /\ UNCHANGED <<loopVars, ctxVars, wfVars, concVars, poolVars, keyVars, parseVars, routerVars>>

NextHB == ShouldInvokeLLM \/ OnLLMInvoked \/ Tick

\* The cap on the number of messages of a run of passive messages.
MaxPassive == 50

\* should_invoke_llm(message, is_at_message=False) on a message that is not
\* empty, as long as no call has returned True.
PassiveMessage ==
    \E scope \in created, message \in {MsgCd, MsgAbPadded}, r \in Draws :
        LET out == should_invoke_llm(monitors[scope], message, FALSE, now, r)
        IN  /\ hbCalls < MaxPassive
            /\ ~hbCall.result
            /\ hbCalls' = hbCalls + 1
            /\ monitors' = [monitors EXCEPT ![scope] = out.mon]
            /\ hbStore' = IF out.persisted THEN persist(hbStore, scope, out.mon) ELSE hbStore
            /\ hbCall' = [op |-> "should_invoke_llm", scope |-> scope, message |-> message,
                          reply |-> <<>>, is_at_message |-> FALSE, at |-> now,
                          pre |-> monitors[scope], preRow |-> hbStore[scope],
                          result |-> out.result, persisted |-> out.persisted,
                          draws |-> out.draws, r |-> IF out.draws = 1 THEN r ELSE -1]
            /\ UNCHANGED <<created, now>>
            /\ UNCHANGED <<loopVars, ctxVars, wfVars, concVars, poolVars, keyVars, parseVars, routerVars>>


\* ------------------------------------------------- AgentService: JSON values

\* A JSON value as json.loads and the MCP client's _to_plain give it: a tagged
\* record. A dict is the sequence of its <<key, value>> pairs.
JNull == [t |-> "null"]
JBool(b) == [t |-> "bool", b |-> b]
JNum(n) == [t |-> "num", n |-> n]
JStr(s) == [t |-> "str", s |-> s]
JList(xs) == [t |-> "list", xs |-> xs]
JDict(items) == [t |-> "dict", items |-> items]

HasKey(d, k) == \E i \in 1..Len(d.items) : d.items[i][1] = k

\* dict.get(k), None when the key is missing
Get(d, k) ==
    IF HasKey(d, k)
    THEN d.items[CHOOSE i \in 1..Len(d.items) : d.items[i][1] = k][2]
    ELSE JNull

\* bool(value)
Truthy(v) ==
    CASE v.t = "null" -> FALSE
      [] v.t = "bool" -> v.b
      [] v.t = "num" -> v.n # 0
      [] v.t = "str" -> v.s # <<>>
      [] v.t = "list" -> v.xs # <<>>
      [] v.t = "dict" -> v.items # <<>>

NotFound == [found |-> FALSE, should_reply |-> FALSE, reply |-> <<>>]

RECURSIVE find_reply_payload(_), FindFirst(_, _)

\* _find_reply_payload
find_reply_payload(value) ==
    IF value.t = "dict"
    THEN LET should_reply == Get(value, "should_reply")
             reply == Get(value, "reply")
         IN  IF should_reply.t = "bool" /\ reply.t \in {"str", "null"}
             THEN [found |-> TRUE, should_reply |-> should_reply.b,
                   reply |-> IF reply.t = "str" THEN reply.s ELSE <<>>]
             ELSE FindFirst([i \in 1..Len(value.items) |-> value.items[i][2]], 1)
    ELSE IF value.t = "list" THEN FindFirst(value.xs, 1)
    ELSE NotFound

\* the loops `for nested in value.values()` and `for item in value`
FindFirst(xs, i) ==
    IF i > Len(xs) THEN NotFound
    ELSE LET found == find_reply_payload(xs[i])
         IN  IF found.found THEN found ELSE FindFirst(xs, i + 1)

\* Text blocks a tool result may carry, and json.loads on them.
TextPlain == <<"s", "u", "r", "e">>
TextJsonNo == <<"{\"should_reply\": false, \"reply\": \"no\"}">>
TextJsonYes == <<"{\"data\": {\"should_reply\": true, \"reply\": \" ok \"}}">>
TextJsonList == <<"[1]">>

JsonLoads(text) ==
    CASE text = TextJsonNo ->
           [ok |-> TRUE, value |-> JDict(<< <<"should_reply", JBool(FALSE)>>,
                                            <<"reply", JStr(<<"n", "o">>)>> >>)]
      [] text = TextJsonYes ->
           [ok |-> TRUE, value |-> JDict(<< <<"data",
                   JDict(<< <<"should_reply", JBool(TRUE)>>,
                            <<"reply", JStr(<<" ", "o", "k", " ">>)>> >>)>> >>)]
      [] text = TextJsonList -> [ok |-> TRUE, value |-> JList(<<JNum(1)>>)]
      [] OTHER -> [ok |-> FALSE, value |-> JNull]

RECURSIVE ScanContent(_, _)
\* the loop `for item in content` of _extract_reply_payload
ScanContent(content, i) ==
    IF i > Len(content) THEN NotFound
    ELSE LET item == content[i]
             text == IF item.t = "dict" THEN Get(item, "text") ELSE JNull
             loaded == IF text.t = "str" THEN JsonLoads(text.s) ELSE [ok |-> FALSE, value |-> JNull]
             candidate == IF loaded.ok THEN find_reply_payload(loaded.value) ELSE NotFound
         IN  IF candidate.found THEN candidate ELSE ScanContent(content, i + 1)

\* _extract_reply_payload
extract_reply_payload(value) ==
    LET candidate == find_reply_payload(value)
    IN  IF candidate.found THEN candidate
        ELSE IF value.t = "dict" /\ Get(value, "content").t = "list"
        THEN ScanContent(Get(value, "content").xs, 1)
        ELSE NotFound

\* _extract_final_reply (a variant that does not look at should_reply, for
\* comparison)
extract_final_reply_any(tool_result, arguments) ==
    LET extracted == extract_reply_payload(tool_result)
        content == Get(arguments, "content")
    IN  IF extracted.found THEN Strip(extracted.reply)
        ELSE IF content.t = "str" THEN Strip(content.s) ELSE <<>>

\* (a variant that lets the model's arguments decide whenever they carry a
\* should_reply, for comparison)
extract_final_reply_args_first(tool_result, arguments) ==
    LET extracted == extract_reply_payload(tool_result)
        content == Get(arguments, "content")
    IN  IF HasKey(arguments, "should_reply") \/ ~extracted.found
        THEN IF HasKey(arguments, "should_reply") /\ ~Truthy(Get(arguments, "should_reply"))
             THEN <<>>
             ELSE IF content.t = "str" THEN Strip(content.s) ELSE <<>>
        ELSE IF extracted.should_reply = FALSE THEN <<>>
        ELSE Strip(extracted.reply)

extract_final_reply(tool_result, arguments) ==
    LET extracted == extract_reply_payload(tool_result)
    IN  IF ~extracted.found
        THEN LET should_reply == IF HasKey(arguments, "should_reply")
                                 THEN Truthy(Get(arguments, "should_reply")) ELSE TRUE
                 content == Get(arguments, "content")
             IN  IF ~should_reply THEN <<>>
                 ELSE IF content.t = "str" THEN Strip(content.s) ELSE <<>>
        ELSE IF extracted.should_reply = FALSE THEN <<>>
        ELSE Strip(extracted.reply)

\* ------------------------------------------------- AgentService: machine

\* AgentService.final_reply_tool
final_reply_tool == <<"e", "m", "i", "t", "_", "r", "e", "p", "l", "y">>
ToolSearch == <<"w", "e", "b", "_", "s", "e", "a", "r", "c", "h">>

\* AgentService.max_steps is drawn from -1 .. MaxStepsConfigured.
MaxStepsConfigured == 3

TextHi == <<" ", "h", "i", " ">>

ToolCall(tool, arguments) ==
    JDict(<< <<"type", JStr(<<"tool_call">>)>>, <<"tool", tool>>, <<"arguments", arguments>> >>)

\* What _parse_json makes of one model output: None (no JSON object), or a dict.
ParsedNone == JNull
ParsedOutputs ==
    {ParsedNone,
     JDict(<< <<"type", JStr(<<"final">>)>>, <<"content", JStr(TextHi)>> >>),
     JDict(<< <<"tool", JStr(final_reply_tool)>>,
              <<"arguments", JDict(<< <<"content", JStr(TextHi)>> >>)>> >>),
     ToolCall(JStr(<<" ", " ">>), JDict(<<>>)),
     ToolCall(JNum(5), JDict(<<>>)),
     ToolCall(JStr(ToolSearch), JDict(<< <<"query", JStr(TextHi)>> >>)),
     ToolCall(JStr(ToolSearch), JDict(<< <<"content", JStr(TextHi)>>,
                                         <<"should_reply", JBool(TRUE)>> >>)),
     ToolCall(JStr(final_reply_tool), JDict(<< <<"content", JStr(TextHi)>>,
                                               <<"should_reply", JBool(TRUE)>> >>)),
     ToolCall(JStr(final_reply_tool), JDict(<< <<"content", JStr(TextHi)>>,
                                               <<"should_reply", JBool(FALSE)>> >>)),
     ToolCall(JStr(final_reply_tool), JDict(<< <<"content", JStr(TextHi)>> >>)),
     ToolCall(JStr(final_reply_tool), JDict(<< <<"content", JStr(TextHi)>>,
                                               <<"should_reply", JNum(0)>> >>)),
     ToolCall(JStr(final_reply_tool), JDict(<< <<"content", JStr(TextHi)>>,
                                               <<"should_reply", JNull>> >>)),
     ToolCall(JStr(final_reply_tool), JDict(<< <<"content", JNum(5)>> >>)),
     ToolCall(JStr(final_reply_tool), JStr(TextHi))}

\* What mcp_client.call_tool does: it raises MCPError, or returns a dict.
ToolRaises == [raised |-> TRUE, value |-> JNull]
ToolReturns(value) == [raised |-> FALSE, value |-> value]
NoToolOutcome == [raised |-> FALSE, value |-> JNull]
ToolOutcomes ==
    {ToolRaises,
     ToolReturns(JDict(<< <<"value", JStr(TextPlain)>> >>)),
     ToolReturns(JDict(<< <<"should_reply", JBool(TRUE)>>, <<"reply", JStr(<<" ", "o", "k">>)>> >>)),
     ToolReturns(JDict(<< <<"should_reply", JBool(FALSE)>>, <<"reply", JStr(<<"o", "k">>)>> >>)),
     ToolReturns(JDict(<< <<"should_reply", JStr(<<"y", "e", "s">>)>>, <<"reply", JStr(<<"o", "k">>)>> >>)),
     ToolReturns(JDict(<< <<"structuredContent",
          JDict(<< <<"result", JList(<< JDict(<< <<"should_reply", JBool(TRUE)>>,
                                                 <<"reply", JNull>> >>) >>)>> >>)>> >>)),
     ToolReturns(JDict(<< <<"content", JList(<< JDict(<< <<"type", JStr(<<"text">>)>>,
                                                        <<"text", JStr(TextPlain)>> >>),
                                                JDict(<< <<"type", JStr(<<"text">>)>>,
                                                        <<"text", JStr(TextJsonNo)>> >>) >>)>>,
                          <<"isError", JBool(FALSE)>> >>)),
     ToolReturns(JDict(<< <<"content", JList(<< JDict(<< <<"type", JStr(<<"text">>)>>,
                                                        <<"text", JStr(TextJsonYes)>> >>) >>)>> >>))}

\* What llm_service.process_input returns (never empty: a failure is a diagnostic text)
LLMReplies == {ReplyOk, ReplyCdPadded}


NoResult == <<"<none>">>
NoRound == [kind |-> "none", parsed |-> ParsedNone, outcome |-> NoToolOutcome]
NoArgs == [reply_mode |-> "auto", is_at_message |-> FALSE, gate_response |-> "true",
           in_loop |-> FALSE]

InitLoop ==
    /\ max_steps \in -1..MaxStepsConfigured
    /\ mcp_client \in BOOLEAN
    /\ cached_tools = FALSE
    /\ pc = "idle"
    /\ call = NoArgs
    /\ step = 0
    /\ gen_calls = 0
    /\ tool_calls = 0
    /\ direct_calls = 0
    /\ prompt = "none"
    /\ round = NoRound
    /\ result = NoResult

\* process_input, up to the call of _run_tool_loop. gate_response is what the
\* model would answer to a gate prompt; list_tools is what mcp_client.list_tools
\* would do; reply is what llm_service.process_input would return.
ProcessInput ==
    \E reply_mode \in {"auto", "tense"}, is_at_message \in BOOLEAN,
       gate_response \in {"true", "false", "maybe"},
       list_tools \in {"tools", "empty", "error"}, reply \in LLMReplies :
        LET tools == cached_tools \/ (mcp_client /\ list_tools = "tools")
            direct == ~mcp_client \/ ~tools
        IN  /\ pc = "idle"
            /\ call' = [reply_mode |-> reply_mode, is_at_message |-> is_at_message,
                        gate_response |-> gate_response, in_loop |-> ~direct]
            /\ cached_tools' = tools
            /\ step' = 0
            /\ gen_calls' = 0
            /\ tool_calls' = 0
            /\ round' = NoRound
            /\ IF direct
               THEN /\ direct_calls' = 1
                    /\ result' = reply
                    /\ prompt' = "none"
                    /\ pc' = "done"
               ELSE /\ direct_calls' = 0
                    /\ result' = NoResult
                    /\ prompt' = "initial"
                    /\ pc' = "loop"
            /\ UNCHANGED <<max_steps, mcp_client>>
            /\ UNCHANGED <<hbVars, ctxVars, wfVars, concVars, poolVars, keyVars, parseVars, routerVars>>

\* list_mcp_tools: the tool list is fetched and cached; on MCPError the cache
\* stays as it is.
ListMcpTools ==
    \E list_tools \in {"tools", "empty", "error"} :
        /\ pc = "idle"
        /\ mcp_client
        /\ cached_tools' = IF list_tools = "error" THEN cached_tools ELSE list_tools = "tools"
        /\ UNCHANGED <<max_steps, mcp_client, pc, call, step, gen_calls, tool_calls,
                       direct_calls, prompt, round, result>>
        /\ UNCHANGED <<hbVars, ctxVars, wfVars, concVars, poolVars, keyVars, parseVars, routerVars>>

\* The checks of one round on the parsed output, lines 290-315:
\* "not_json", "bad_type", "no_tool", or "call".
\* (a variant without the check of type, for comparison)
RoundKind_untyped(parsed) ==
    IF parsed.t # "dict" THEN "not_json"
    ELSE IF ~(Get(parsed, "tool").t = "str" /\ Strip(Get(parsed, "tool").s) # <<>>)
    THEN "no_tool"
    ELSE "call"

RoundKind(parsed) ==
    IF parsed.t # "dict" THEN "not_json"
    ELSE IF ~(Get(parsed, "type").t = "str" /\ Get(parsed, "type").s = <<"tool_call">>)
    THEN "bad_type"
    ELSE IF ~(Get(parsed, "tool").t = "str" /\ Strip(Get(parsed, "tool").s) # <<>>)
    THEN "no_tool"
    ELSE "call"

\* arguments = parsed.get("arguments"), {} unless a dict
ArgumentsOf(parsed) ==
    IF Get(parsed, "arguments").t = "dict" THEN Get(parsed, "arguments") ELSE JDict(<<>>)

\* A round that ends with `continue` counts as a round of the for loop.
StepAfterContinue_same(n) == n

StepAfterContinue(n) == n + 1

\* One round of the for loop that breaks the protocol: no tool is called.
RoundProtocolViolation ==
    \E parsed \in ParsedOutputs :
        /\ pc = "loop"
        /\ step < max_steps
        /\ RoundKind(parsed) # "call"
        /\ gen_calls' = gen_calls + 1
        /\ step' = StepAfterContinue(step)
        /\ prompt' = RoundKind(parsed)
        /\ round' = [kind |-> RoundKind(parsed), parsed |-> parsed, outcome |-> NoToolOutcome]
        /\ UNCHANGED <<max_steps, mcp_client, cached_tools, pc, call, tool_calls,
                       direct_calls, result>>
        /\ UNCHANGED <<hbVars, ctxVars, wfVars, concVars, poolVars, keyVars, parseVars, routerVars>>

\* (a variant in which the MCPError of a terminal call ends the loop with "",
\* for comparison)
RoundToolFailed_ends ==
    \E parsed \in ParsedOutputs :
        /\ pc = "loop"
        /\ step < max_steps
        /\ RoundKind(parsed) = "call"
        /\ gen_calls' = gen_calls + 1
        /\ tool_calls' = tool_calls + 1
        /\ step' = step + 1
        /\ round' = [kind |-> "tool_failed", parsed |-> parsed, outcome |-> ToolRaises]
        /\ IF Get(parsed, "tool").s = final_reply_tool
           THEN pc' = "done" /\ result' = <<>> /\ prompt' = "none"
           ELSE pc' = pc /\ result' = result /\ prompt' = "tool_failed"
        /\ UNCHANGED <<max_steps, mcp_client, cached_tools, call, direct_calls>>
        /\ UNCHANGED <<hbVars, ctxVars, wfVars, concVars, poolVars, keyVars, parseVars, routerVars>>

\* One round whose tool call raises MCPError.
RoundToolFailed ==
    \E parsed \in ParsedOutputs :
        /\ pc = "loop"
        /\ step < max_steps
        /\ RoundKind(parsed) = "call"
        /\ gen_calls' = gen_calls + 1
        /\ tool_calls' = tool_calls + 1
        /\ step' = StepAfterContinue(step)
        /\ prompt' = "tool_failed"
        /\ round' = [kind |-> "tool_failed", parsed |-> parsed, outcome |-> ToolRaises]
        /\ UNCHANGED <<max_steps, mcp_client, cached_tools, pc, call, direct_calls, result>>
        /\ UNCHANGED <<hbVars, ctxVars, wfVars, concVars, poolVars, keyVars, parseVars, routerVars>>

\* One round whose tool call succeeds: the terminal tool ends the loop, any
\* other tool's result is folded into the next prompt.
RoundToolReturned ==
    \E parsed \in ParsedOutputs, outcome \in ToolOutcomes :
        /\ pc = "loop"
        /\ step < max_steps
        /\ RoundKind(parsed) = "call"
        /\ ~outcome.raised
        /\ gen_calls' = gen_calls + 1
        /\ tool_calls' = tool_calls + 1
        /\ step' = step + 1
        /\ IF Get(parsed, "tool").s = final_reply_tool
           THEN /\ result' = extract_final_reply(outcome.value, ArgumentsOf(parsed))
                /\ pc' = "done"
                /\ prompt' = "none"
                /\ round' = [kind |-> "terminal", parsed |-> parsed, outcome |-> outcome]
           ELSE /\ result' = result
                /\ pc' = pc
                /\ prompt' = "continue"
                /\ round' = [kind |-> "continue", parsed |-> parsed, outcome |-> outcome]
        /\ UNCHANGED <<max_steps, mcp_client, cached_tools, call, direct_calls>>
        /\ UNCHANGED <<hbVars, ctxVars, wfVars, concVars, poolVars, keyVars, parseVars, routerVars>>

\* The for loop is over without a return: line 340. (The variant falls back to
\* the direct generation call instead, for comparison.)
LoopExhausted_fallback ==
    /\ pc = "loop"
    /\ step >= max_steps
    /\ \E reply \in LLMReplies : result' = reply
    /\ direct_calls' = direct_calls + 1
    /\ pc' = "done"
    /\ UNCHANGED <<max_steps, mcp_client, cached_tools, call, step, gen_calls, tool_calls,
                   prompt, round>>
    /\ UNCHANGED <<hbVars, ctxVars, wfVars, concVars, poolVars, keyVars, parseVars, routerVars>>

LoopExhausted ==
    /\ pc = "loop"
    /\ step >= max_steps
    /\ result' = <<>>
    /\ pc' = "done"
    /\ UNCHANGED <<max_steps, mcp_client, cached_tools, call, step, gen_calls, tool_calls,
                   direct_calls, prompt, round>>
    /\ UNCHANGED <<hbVars, ctxVars, wfVars, concVars, poolVars, keyVars, parseVars, routerVars>>

LoopStep == RoundProtocolViolation \/ RoundToolFailed \/ RoundToolReturned \/ LoopExhausted

NextLoop == ListMcpTools \/ ProcessInput \/ LoopStep


\* ------------------------------------------------- MemoryPool, ContextEngine

\* str.isalnum() on one character
AlnumChars == UpperChars \cup LowerChars \cup DigitChars \cup CJKChars

\* ContextEngine._normalize_scope, MemoryPool._normalize_scope
normalize_scope(scope) ==
    LET clean == Strip(scope)
    IN  IF clean = <<>> THEN ScopeDefault
        ELSE [i \in 1..Len(clean) |->
                 IF clean[i] \in AlnumChars \cup {"-", "_"} THEN clean[i] ELSE "_"]

\* The slice s[-n:] of a list
LastOf(s, n) ==
    IF n > 0 THEN SubSeq(s, Max2(1, Len(s) - n + 1), Len(s))
    ELSE IF n = 0 THEN s
    ELSE SubSeq(s, Min2(Len(s), -n) + 1, Len(s))

\* MemoryPool.recent
pool_recent(records, limit, scope) ==
    IF limit <= 0 THEN <<>> ELSE LastOf(records[normalize_scope(scope)], limit)

\* MemoryPool.append: the record is written to the file of the scope and added
\* to the records of the scope. (The variant keeps one log for all scopes.)
pool_append_unscoped(records, value, scope) ==
    LET item == Strip(value)
    IN  IF item = <<>> THEN records
        ELSE [records EXCEPT ![ScopeDefault] = Append(@, item)]

pool_append(records, value, scope) ==
    LET item == Strip(value)
    IN  IF item = <<>> THEN records
        ELSE [records EXCEPT ![normalize_scope(scope)] = Append(@, item)]

NotLoaded == [loaded |-> FALSE, items |-> <<>>]

\* ContextEngine._recent_context on c = [records, recent]: the window of the
\* scope is read from the pool on first access.
recent_context(c, limit, scope) ==
    LET key == normalize_scope(scope)
    IN  IF c.recent[key].loaded THEN c
        ELSE [c EXCEPT !.recent[key] =
                 [loaded |-> TRUE, items |-> pool_recent(c.records, limit, key)]]

\* history[-self.recent_limit:] (a variant that keeps the head, for comparison)
Trimmed_head(history, limit) == SubSeq(history, 1, Min2(Len(history), limit))

Trimmed(history, limit) == LastOf(history, limit)

\* ContextEngine._remember; written = FALSE when the write to the file of the
\* scope raises, which leaves the call after the first access of the window.
remember(c, limit, item, scope, written) ==
    LET key == normalize_scope(scope)
        c1 == recent_context(c, limit, scope)
        history == Append(c1.recent[key].items, item)
    IN  IF ~written THEN c1
        ELSE [records |-> pool_append(c1.records, item, scope),
              recent |-> [c1.recent EXCEPT ![key] =
                             [loaded |-> TRUE,
                              items |-> IF Len(history) > limit
                                        THEN Trimmed(history, limit) ELSE history]]]

UserPrefix == <<"u", "s", "e", "r", ":", " ">>
AssistantPrefix == <<"a", "s", "s", "i", "s", "t", "a", "n", "t", ":", " ">>

\* ContextEngine.remember_user_message
remember_user_message(c, limit, msg, scope, written) ==
    LET clean == Strip(msg)
    IN  IF clean = <<>> THEN c ELSE remember(c, limit, UserPrefix \o clean, scope, written)

\* ContextEngine.remember_assistant_message (a variant that records the reply
\* as a user message, for comparison)
remember_assistant_message_as_user(c, limit, msg, scope, written) ==
    LET clean == Strip(msg)
    IN  IF clean = <<>> THEN c ELSE remember(c, limit, UserPrefix \o clean, scope, written)

remember_assistant_message(c, limit, msg, scope, written) ==
    LET clean == Strip(msg)
    IN  IF clean = <<>> THEN c ELSE remember(c, limit, AssistantPrefix \o clean, scope, written)

RECURSIVE JoinLines(_)
\* "\n".join(history)
JoinLines(history) ==
    IF history = <<>> THEN <<>>
    ELSE IF Len(history) = 1 THEN history[1]
    ELSE history[1] \o <<"\n">> \o JoinLines(Tail(history))

\* ContextEngine.compose_input: the window is read; the text handed on is the
\* message itself, or the window between the fixed lines of the template and
\* then the message (a fixed line is one element of the text).
\* (The variant hands on the message after strip(), for comparison.)
compose_input_stripped(c, limit, current_msg, scope) ==
    LET c1 == recent_context(c, limit, scope)
        history == c1.recent[normalize_scope(scope)].items
    IN  [ctx |-> c1, has_history |-> history # <<>>,
         text |-> IF history = <<>> THEN Strip(current_msg)
                  ELSE <<"[you may use this memory]", "\n", "[memory:]", "\n">>
                           \o JoinLines(history)
                           \o <<"\n", "[current input:]", "\n">> \o Strip(current_msg)]

compose_input(c, limit, current_msg, scope) ==
    LET c1 == recent_context(c, limit, scope)
        history == c1.recent[normalize_scope(scope)].items
    IN  [ctx |-> c1, has_history |-> history # <<>>,
         text |-> IF history = <<>> THEN current_msg
                  ELSE <<"[you may use this memory]", "\n", "[memory:]", "\n">>
                           \o JoinLines(history)
                           \o <<"\n", "[current input:]", "\n">> \o current_msg]

\* The scopes as callers give them: padded, blank, with characters that a key
\* may not hold.
ScopeBlank == <<" ">>
ScopeGroup1Spaced == <<" ", "q", "q", " ", "g", "r", "o", "u", "p", " ", "1">>
CtxScopes == {ScopeBlank, ScopeDefault, ScopeGroup1, ScopeGroup1Spaced}

CtxMessages == {MsgBlank, MsgAbPadded}

\* The largest recent_limit configured, and the cap on the number of calls.
RecentLimitMax == 2
MaxCtxCalls == 3

\* The records a MemoryPool has loaded from the files of a scope. A record
\* value is any string of the file.
InitialLogs ==
    {<<>>,
     <<UserPrefix \o MsgCd>>,
     <<UserPrefix \o MsgCd, AssistantPrefix \o ReplyOk, MsgTian>>}

NoCtxCall == [op |-> "none", scope |-> ScopeDefault, msg |-> <<>>, written |-> TRUE]

InitCtx ==
    /\ recent_limit \in 0..RecentLimitMax
    /\ \E log \in InitialLogs :
          records_by_scope = [k \in ScopeKeys |-> IF k = ScopeGroup1 THEN log ELSE <<>>]
    /\ recent_context_by_scope = [k \in ScopeKeys |-> NotLoaded]
    /\ ctxCall = NoCtxCall
    /\ ctxCalls = 0

CtxState == [records |-> records_by_scope, recent |-> recent_context_by_scope]

RememberUserMessage ==
    \E msg \in CtxMessages, scope \in CtxScopes, written \in BOOLEAN :
        LET c == remember_user_message(CtxState, recent_limit, msg, scope, written)
        IN  /\ ctxCalls < MaxCtxCalls
            /\ ctxCalls' = ctxCalls + 1
            /\ records_by_scope' = c.records
            /\ recent_context_by_scope' = c.recent
            /\ ctxCall' = [op |-> "remember_user_message", scope |-> scope, msg |-> msg,
                           written |-> written]
            /\ UNCHANGED recent_limit
            /\ UNCHANGED <<hbVars, loopVars, wfVars, concVars, poolVars, keyVars, parseVars, routerVars>>

RememberAssistantMessage ==
    \E msg \in CtxMessages, scope \in CtxScopes, written \in BOOLEAN :
        LET c == remember_assistant_message(CtxState, recent_limit, msg, scope, written)
        IN  /\ ctxCalls < MaxCtxCalls
            /\ ctxCalls' = ctxCalls + 1
            /\ records_by_scope' = c.records
            /\ recent_context_by_scope' = c.recent
            /\ ctxCall' = [op |-> "remember_assistant_message", scope |-> scope, msg |-> msg,
                           written |-> written]
            /\ UNCHANGED recent_limit
            /\ UNCHANGED <<hbVars, loopVars, wfVars, concVars, poolVars, keyVars, parseVars, routerVars>>

ComposeInput ==
    \E msg \in CtxMessages, scope \in CtxScopes :
        LET out == compose_input(CtxState, recent_limit, msg, scope)
        IN  /\ ctxCalls < MaxCtxCalls
            /\ ctxCalls' = ctxCalls + 1
            /\ records_by_scope' = out.ctx.records
            /\ recent_context_by_scope' = out.ctx.recent
            /\ ctxCall' = [op |-> "compose_input", scope |-> scope, msg |-> msg,
                           written |-> TRUE]
            /\ UNCHANGED recent_limit
            /\ UNCHANGED <<hbVars, loopVars, wfVars, concVars, poolVars, keyVars, parseVars, routerVars>>

NextCtx == RememberUserMessage \/ RememberAssistantMessage \/ ComposeInput


\* ------------------------------------------------- Router, MessageWorkflow

None == <<"<None>">>
\* group_id = None
NoGroup == -1

SourceQQGroup == <<"q", "q", "_", "g", "r", "o", "u", "p">>
SourceEmpty == <<>>

\* Router._allowed_group_ids
allowed_group_ids == {1}

\* Router.normalize_text
normalize_text(msg) ==
    IF msg = None THEN None
    ELSE IF Strip(msg) = <<>> THEN None ELSE Strip(msg)

\* Router.should_process_message of a router whose _allowed_group_ids is
\* allowed (a variant that lets a message without a group_id through, for
\* comparison)
Router_should_process_message_any_missing(allowed, source, group_id) ==
    IF source # SourceQQGroup THEN TRUE
    ELSE IF allowed = {} THEN TRUE
    ELSE IF group_id = NoGroup THEN TRUE
    ELSE group_id \in allowed

\* Router.should_process_message of a router whose _allowed_group_ids is
\* allowed
Router_should_process_message(allowed, source, group_id) ==
    IF source # SourceQQGroup THEN TRUE
    ELSE IF allowed = {} THEN TRUE
    ELSE IF group_id = NoGroup THEN FALSE
    ELSE group_id \in allowed

\* Router.should_process_message
should_process_message(source, group_id) ==
    Router_should_process_message(allowed_group_ids, source, group_id)

SourceQQPrivate == <<"q", "q", "_", "p", "r", "i", "v", "a", "t", "e">>

\* The sources and the group ids of the messages a router is asked about
RouterSources == {SourceQQGroup, SourceQQPrivate, SourceEmpty}
RouterGroupIds == {NoGroup, 0, 1, 2}
RouterAllowLists == SUBSET {0, 1, 2}

NoRouterCall == [asked |-> FALSE, source |-> SourceEmpty, group_id |-> NoGroup,
                 result |-> FALSE]

\* router.should_process_message(source=source, group_id=group_id)
ShouldProcessMessage ==
    \E source \in RouterSources, group_id \in RouterGroupIds :
        /\ routerCall' = [asked |-> TRUE, source |-> source, group_id |-> group_id,
                          result |-> Router_should_process_message(
                                        router_allowed_group_ids, source, group_id)]
        /\ UNCHANGED router_allowed_group_ids
        /\ UNCHANGED <<hbVars, loopVars, ctxVars, wfVars, concVars, poolVars, keyVars,
                       parseVars>>

\* str(group_id)
DigitsOf(n) == IF n = 1 THEN <<"1">> ELSE <<"2">>

\* MessageWorkflow._scope
ScopeOf(source, group_id) ==
    IF source = SourceQQGroup /\ group_id # NoGroup
    THEN SourceQQGroup \o <<"_">> \o DigitsOf(group_id)
    ELSE IF source = SourceEmpty THEN ScopeDefault ELSE source

\* `not reply.strip()` (a variant that takes only "" for empty, for comparison)
IsEmptyReply_exact(reply) == reply = <<>>

IsEmptyReply(reply) == Strip(reply) = <<>>

\* The senders of a message: (source, group_id)
WFSenders ==
    {[source |-> SourceQQGroup, group_id |-> 1],
     [source |-> SourceQQGroup, group_id |-> 2],
     [source |-> SourceQQGroup, group_id |-> NoGroup],
     [source |-> SourceEmpty, group_id |-> NoGroup]}

WFMessages == {None, MsgBlank, MsgAbPadded, MsgTian}

\* What router.process_agent returns: "", blanks, a padded reply.
WFReplies == {<<>>, MsgBlank, ReplyCdPadded}

\* The cap on the number of process calls.
MaxWFCalls == 2

NoWF == [command |-> "", source |-> SourceEmpty, group_id |-> NoGroup, empty |-> FALSE,
         reason |-> "",
         admitted |-> FALSE, clean |-> <<>>, at_user |-> FALSE, scope |-> ScopeDefault,
         preLog |-> <<>>, was_tense_before |-> FALSE, should_reply |-> FALSE,
         reply_mode |-> "auto", decided |-> IdleMonitor, decidedRow |-> NoRow,
         has_history |-> FALSE, generated |-> FALSE, reply |-> <<>>]

Pending == [kind |-> "pending", value |-> <<>>]
Returned(kind, value) == [kind |-> kind, value |-> value]

\* Router.handle_structured, on the name of the command: the text of the
\* answer ("sing" stands for a name that is not a command).
handle_structured(name) ==
    IF name = "ping" THEN <<"p", "o", "n", "g">>
    ELSE <<"unsupported:", name>>

\* MessageWorkflow.hooks, by position in the list
hooks == {1, 2}

\* _emit: every hook is handed the event; what a hook raises is dropped.
\* (The variant does not catch: the first hook that raises ends the loop and
\* the exception leaves _emit.)
emit_unguarded(seen, raising) ==
    LET first == IF raising = {} THEN 0
                 ELSE CHOOSE h \in raising : \A g \in raising : h <= g
    IN  [seen |-> [h \in hooks |-> IF first = 0 \/ h <= first THEN seen[h] + 1 ELSE seen[h]],
         escaped |-> first # 0]

emit(seen, raising) ==
    [seen |-> [h \in hooks |-> seen[h] + 1], escaped |-> FALSE]

\* An _emit call of process and what follows it: the next position and result
\* of process, unless an exception left _emit.
Emitted(seen, nextPc, nextResult) ==
    LET e == emit(seen, raising_hooks)
    IN  /\ hook_seen' = e.seen
        /\ wfPc' = IF e.escaped THEN "done" ELSE nextPc
        /\ wfResult' = IF e.escaped THEN Returned("raised", <<"on_event">>) ELSE nextResult

\* ContextEngine over a MemoryPool and the template monitor of the default
\* scope, as ConfigManager.build_context_engine constructs them, with a row in
\* the store from `rows` and a log on disk from `logs`.
InitWFOver(rows, logs, raising, down) ==
    /\ now = 1
    /\ \E scope \in MonitorScopes, row \in rows :
          /\ hbStore = [s \in ScopeKeys |-> IF s = scope THEN row ELSE NoRow]
          /\ monitors = [s \in ScopeKeys |->
                            IF s = ScopeDefault THEN LoadMonitor(hbStore[s], 1)
                            ELSE IdleMonitor]
    /\ created = {ScopeDefault}
    /\ hbCall = NoCall
    /\ hbCalls = 0
    /\ recent_limit = RecentLimitMax
    /\ \E log \in logs :
          records_by_scope = [k \in ScopeKeys |-> IF k = ScopeGroup1 THEN log ELSE <<>>]
    /\ recent_context_by_scope = [k \in ScopeKeys |-> NotLoaded]
    /\ ctxCall = NoCtxCall
    /\ ctxCalls = 0
    /\ wfPc = "idle"
    /\ wf = NoWF
    /\ wfTrace = <<>>
    /\ wfResult = Pending
    /\ wfCalls = 0
    /\ raising_hooks \in raising
    /\ hook_seen = [h \in hooks |-> 0]
    /\ store_down \in down

\* No hook raises and the store works.
InitWF == InitWFOver(InitialRows, {l \in InitialLogs : Len(l) # 1}, {{}}, {FALSE})

\* process, lines 86-119: the command branch (command is not None), admission,
\* normalize_text, adapter.captured and the scope. A command is given by its
\* name; "" is command = None.
\* (A variant that admits before it looks at the command, for comparison.)
WfStart_admits_first ==
    /\ wfPc \in {"idle", "done"}
    /\ wfCalls < MaxWFCalls
    /\ wfCalls' = wfCalls + 1
    /\ \E command \in {"", "ping", "sing"}, msg \in WFMessages, at_user \in BOOLEAN,
          sender \in WFSenders :
          LET clean == normalize_text(msg)
              scope == ScopeOf(sender.source, sender.group_id)
              response == handle_structured(command)
              args == [NoWF EXCEPT !.command = command, !.source = sender.source,
                                   !.group_id = sender.group_id, !.empty = (clean = None)]
              seen == [h \in hooks |-> 0]
          IN  IF ~should_process_message(sender.source, sender.group_id)
              THEN /\ wfTrace' = <<"adapter.ignore">>
                   /\ wf' = [args EXCEPT !.reason = "group_not_allowed"]
                   /\ Emitted(seen, "done", Returned("none", <<>>))
              ELSE IF command # ""
              THEN /\ wfTrace' = <<"handle_structured", "router.command">>
                   /\ wf' = [NoWF EXCEPT !.command = command]
                   /\ Emitted(seen, "done", Returned("command", response))
              ELSE IF clean = None
              THEN /\ wfTrace' = <<"adapter.ignore">>
                   /\ wf' = [args EXCEPT !.reason = "empty_message"]
                   /\ Emitted(seen, "done", Returned("none", <<>>))
              ELSE /\ wfTrace' = <<"adapter.captured">>
                   /\ wf' = [args EXCEPT !.admitted = TRUE, !.clean = clean,
                                         !.at_user = at_user, !.scope = scope,
                                         !.preLog = records_by_scope[normalize_scope(scope)]]
                   /\ Emitted(seen, "decide", Pending)
    /\ UNCHANGED <<raising_hooks, store_down>>
    /\ UNCHANGED <<hbVars, loopVars, ctxVars, concVars, poolVars, keyVars, parseVars, routerVars>>

\* (A variant that looks at the message before it admits, for comparison.)
WfStart_empty_first ==
    /\ wfPc \in {"idle", "done"}
    /\ wfCalls < MaxWFCalls
    /\ wfCalls' = wfCalls + 1
    /\ \E command \in {"", "ping", "sing"}, msg \in WFMessages, at_user \in BOOLEAN,
          sender \in WFSenders :
          LET clean == normalize_text(msg)
              scope == ScopeOf(sender.source, sender.group_id)
              response == handle_structured(command)
              args == [NoWF EXCEPT !.command = command, !.source = sender.source,
                                   !.group_id = sender.group_id, !.empty = (clean = None)]
              seen == [h \in hooks |-> 0]
          IN  IF command # ""
              THEN /\ wfTrace' = <<"handle_structured", "router.command">>
                   /\ wf' = [NoWF EXCEPT !.command = command]
                   /\ Emitted(seen, "done", Returned("command", response))
              ELSE IF clean = None
              THEN /\ wfTrace' = <<"adapter.ignore">>
                   /\ wf' = [args EXCEPT !.reason = "empty_message"]
                   /\ Emitted(seen, "done", Returned("none", <<>>))
              ELSE IF ~should_process_message(sender.source, sender.group_id)
              THEN /\ wfTrace' = <<"adapter.ignore">>
                   /\ wf' = [args EXCEPT !.reason = "group_not_allowed"]
                   /\ Emitted(seen, "done", Returned("none", <<>>))
              ELSE /\ wfTrace' = <<"adapter.captured">>
                   /\ wf' = [args EXCEPT !.admitted = TRUE, !.clean = clean,
                                         !.at_user = at_user, !.scope = scope,
                                         !.preLog = records_by_scope[normalize_scope(scope)]]
                   /\ Emitted(seen, "decide", Pending)
    /\ UNCHANGED <<raising_hooks, store_down>>
    /\ UNCHANGED <<hbVars, loopVars, ctxVars, concVars, poolVars, keyVars, parseVars, routerVars>>

WfStart ==
    /\ wfPc \in {"idle", "done"}
    /\ wfCalls < MaxWFCalls
    /\ wfCalls' = wfCalls + 1
    /\ \/ \E command \in {"ping", "sing"} :
              /\ wfTrace' = <<"handle_structured", "router.command">>
              /\ wf' = [NoWF EXCEPT !.command = command]
              /\ Emitted([h \in hooks |-> 0], "done",
                         Returned("command", handle_structured(command)))
       \/ \E msg \in WFMessages, at_user \in BOOLEAN, sender \in WFSenders :
              LET clean == normalize_text(msg)
                  scope == ScopeOf(sender.source, sender.group_id)
                  args == [NoWF EXCEPT !.source = sender.source,
                                       !.group_id = sender.group_id,
                                       !.empty = (clean = None)]
                  seen == [h \in hooks |-> 0]
              IN  IF ~should_process_message(sender.source, sender.group_id)
                  THEN /\ wfTrace' = <<"adapter.ignore">>
                       /\ wf' = [args EXCEPT !.reason = "group_not_allowed"]
                       /\ Emitted(seen, "done", Returned("none", <<>>))
                  ELSE IF clean = None
                  THEN /\ wfTrace' = <<"adapter.ignore">>
                       /\ wf' = [args EXCEPT !.reason = "empty_message"]
                       /\ Emitted(seen, "done", Returned("none", <<>>))
                  ELSE /\ wfTrace' = <<"adapter.captured">>
                       /\ wf' = [args EXCEPT !.admitted = TRUE, !.clean = clean,
                                             !.at_user = at_user, !.scope = scope,
                                             !.preLog =
                                                 records_by_scope[normalize_scope(scope)]]
                       /\ Emitted(seen, "decide", Pending)
    /\ UNCHANGED <<raising_hooks, store_down>>
    /\ UNCHANGED <<hbVars, loopVars, ctxVars, concVars, poolVars, keyVars, parseVars, routerVars>>

\* lines 121-138: the snapshot before, the decision, the snapshot after and
\* heartbeat.checked. The monitor of a scope not seen before is constructed
\* from the template and loads its row (_heartbeat_for_scope). With the store
\* down, load raises inside the first heartbeat_snapshot, before the monitor is
\* registered, and save raises inside should_invoke_llm, after the monitor has
\* changed; nothing catches either.
\* (The variant takes the reply mode from the snapshot after the decision.)
WfDecide_mode_after ==
    \E r \in Draws :
        LET key == normalize_scope(wf.scope)
            mons == IF key \in created THEN monitors
                    ELSE [monitors EXCEPT ![key] = LoadMonitor(hbStore[key], now)]
            was_tense_before == mons[key].tense
            out == should_invoke_llm(mons[key], wf.clean, wf.at_user, now, r)
            store == IF out.persisted THEN persist(hbStore, key, out.mon) ELSE hbStore
        IN  /\ wfPc = "decide"
            /\ ~store_down
            /\ created' = created \cup {key}
            /\ monitors' = [mons EXCEPT ![key] = out.mon]
            /\ hbStore' = store
            /\ wf' = [wf EXCEPT !.was_tense_before = was_tense_before,
                                !.should_reply = out.result,
                                !.reply_mode = IF wf.at_user \/ out.mon.tense
                                               THEN "tense" ELSE "auto",
                                !.decided = out.mon,
                                !.decidedRow = store[key]]
            /\ wfTrace' = wfTrace \o <<"heartbeat_snapshot", "should_invoke_llm",
                                       "heartbeat_snapshot", "heartbeat.checked">>
            /\ Emitted(hook_seen, IF out.result THEN "compose" ELSE "declined", wfResult)
            /\ UNCHANGED <<now, hbCall, hbCalls, wfCalls, raising_hooks, store_down>>
            /\ UNCHANGED <<loopVars, ctxVars, concVars, poolVars, keyVars, parseVars, routerVars>>

WfDecide ==
    \E r \in Draws :
        LET key == normalize_scope(wf.scope)
            mons == IF key \in created THEN monitors
                    ELSE [monitors EXCEPT ![key] = LoadMonitor(hbStore[key], now)]
            was_tense_before == mons[key].tense
            out == should_invoke_llm(mons[key], wf.clean, wf.at_user, now, r)
            store == IF out.persisted THEN persist(hbStore, key, out.mon) ELSE hbStore
        IN  /\ wfPc = "decide"
            /\ IF store_down /\ key \notin created
               THEN /\ wfTrace' = wfTrace \o <<"heartbeat_snapshot">>
                    /\ wfPc' = "done"
                    /\ wfResult' = Returned("raised", <<"load">>)
                    /\ UNCHANGED <<monitors, created, hbStore, wf, hook_seen>>
               ELSE IF store_down /\ out.persisted
               THEN /\ monitors' = [monitors EXCEPT ![key] = out.mon]
                    /\ wf' = [wf EXCEPT !.was_tense_before = was_tense_before,
                                        !.decided = out.mon,
                                        !.decidedRow = hbStore[key]]
                    /\ wfTrace' = wfTrace \o <<"heartbeat_snapshot", "should_invoke_llm">>
                    /\ wfPc' = "done"
                    /\ wfResult' = Returned("raised", <<"save">>)
                    /\ UNCHANGED <<created, hbStore, hook_seen>>
               ELSE /\ created' = created \cup {key}
                    /\ monitors' = [mons EXCEPT ![key] = out.mon]
                    /\ hbStore' = store
                    /\ wf' = [wf EXCEPT !.was_tense_before = was_tense_before,
                                        !.should_reply = out.result,
                                        !.reply_mode = IF wf.at_user \/ was_tense_before
                                                       THEN "tense" ELSE "auto",
                                        !.decided = out.mon,
                                        !.decidedRow = store[key]]
                    /\ wfTrace' = wfTrace \o <<"heartbeat_snapshot", "should_invoke_llm",
                                               "heartbeat_snapshot", "heartbeat.checked">>
                    /\ Emitted(hook_seen, IF out.result THEN "compose" ELSE "declined",
                               wfResult)
            /\ UNCHANGED <<now, hbCall, hbCalls, wfCalls, raising_hooks, store_down>>
            /\ UNCHANGED <<loopVars, ctxVars, concVars, poolVars, keyVars, parseVars, routerVars>>

\* lines 140-143 (a variant that does not record the message, for comparison)
WfDeclined_unrecorded ==
    /\ wfPc = "declined"
    /\ wfTrace' = wfTrace \o <<"context.user_recorded">>
    /\ Emitted(hook_seen, "done", Returned("none", <<>>))
    /\ UNCHANGED <<wf, wfCalls, raising_hooks, store_down>>
    /\ UNCHANGED <<hbVars, loopVars, ctxVars, concVars, poolVars, keyVars, parseVars, routerVars>>

\* lines 140-143: engagement said no.
WfDeclined ==
    LET c == remember_user_message(CtxState, recent_limit, wf.clean, wf.scope, TRUE)
    IN  /\ wfPc = "declined"
        /\ records_by_scope' = c.records
        /\ recent_context_by_scope' = c.recent
        /\ wfTrace' = wfTrace \o <<"remember_user_message", "context.user_recorded">>
        /\ Emitted(hook_seen, "done", Returned("none", <<>>))
        /\ UNCHANGED <<recent_limit, ctxCall, ctxCalls, wf, wfCalls, raising_hooks,
                       store_down>>
        /\ UNCHANGED <<hbVars, loopVars, concVars, poolVars, keyVars, parseVars, routerVars>>

\* lines 145-147 (a variant that records the user message after the generation
\* call, for comparison)
WfCompose_unrecorded ==
    LET out == compose_input(CtxState, recent_limit, wf.clean, wf.scope)
    IN  /\ wfPc = "compose"
        /\ records_by_scope' = out.ctx.records
        /\ recent_context_by_scope' = out.ctx.recent
        /\ wf' = [wf EXCEPT !.has_history = out.has_history]
        /\ wfTrace' = wfTrace \o <<"compose_input", "context.composed">>
        /\ Emitted(hook_seen, "generate", wfResult)
        /\ UNCHANGED <<recent_limit, ctxCall, ctxCalls, wfCalls, raising_hooks, store_down>>
        /\ UNCHANGED <<hbVars, loopVars, concVars, poolVars, keyVars, parseVars, routerVars>>

\* lines 145-147: compose_input, remember_user_message, context.composed.
WfCompose ==
    LET out == compose_input(CtxState, recent_limit, wf.clean, wf.scope)
        c == remember_user_message(out.ctx, recent_limit, wf.clean, wf.scope, TRUE)
    IN  /\ wfPc = "compose"
        /\ records_by_scope' = c.records
        /\ recent_context_by_scope' = c.recent
        /\ wf' = [wf EXCEPT !.has_history = out.has_history]
        /\ wfTrace' = wfTrace \o <<"compose_input", "remember_user_message",
                                   "context.composed">>
        /\ Emitted(hook_seen, "generate", wfResult)
        /\ UNCHANGED <<recent_limit, ctxCall, ctxCalls, wfCalls, raising_hooks, store_down>>
        /\ UNCHANGED <<hbVars, loopVars, concVars, poolVars, keyVars, parseVars, routerVars>>

\* lines 149-156: router.process_agent returns a reply, or raises; the call
\* takes time. An empty reply ends the call with workflow.no_reply.
WfGenerate ==
    \E later \in {now, now + 1} :
        /\ wfPc = "generate"
        /\ later <= MaxTime
        /\ now' = later
        /\ \/ /\ wfTrace' = wfTrace \o <<"process_agent">>
              /\ wf' = wf
              /\ wfResult' = Returned("raised", <<>>)
              /\ wfPc' = "done"
              /\ hook_seen' = hook_seen
           \/ \E reply \in WFReplies :
                  IF IsEmptyReply(reply)
                  THEN /\ wfTrace' = wfTrace \o <<"process_agent", "workflow.no_reply">>
                       /\ wf' = [wf EXCEPT !.generated = TRUE, !.reply = reply]
                       /\ Emitted(hook_seen, "done", Returned("none", <<>>))
                  ELSE /\ wfTrace' = wfTrace \o <<"process_agent">>
                       /\ wf' = [wf EXCEPT !.generated = TRUE, !.reply = reply]
                       /\ wfResult' = Pending
                       /\ wfPc' = "record_reply"
                       /\ hook_seen' = hook_seen
        /\ UNCHANGED <<monitors, created, hbStore, hbCall, hbCalls, wfCalls, raising_hooks,
                       store_down>>
        /\ UNCHANGED <<loopVars, ctxVars, concVars, poolVars, keyVars, parseVars, routerVars>>

\* line 158: remember_assistant_message
WfRememberAssistant ==
    LET c == remember_assistant_message(CtxState, recent_limit, wf.reply, wf.scope, TRUE)
    IN  /\ wfPc = "record_reply"
        /\ records_by_scope' = c.records
        /\ recent_context_by_scope' = c.recent
        /\ wfTrace' = wfTrace \o <<"remember_assistant_message">>
        /\ wfPc' = "invoked"
        /\ UNCHANGED <<recent_limit, ctxCall, ctxCalls, wf, wfResult, wfCalls, raising_hooks,
                       hook_seen, store_down>>
        /\ UNCHANGED <<hbVars, loopVars, concVars, poolVars, keyVars, parseVars, routerVars>>

\* line 159: on_llm_invoked; with the store down its save raises after the
\* monitor has changed.
WfOnLLMInvoked ==
    LET key == normalize_scope(wf.scope)
        m == on_llm_invoked(monitors[key], wf.clean, wf.reply, now)
    IN  /\ wfPc = "invoked"
        /\ monitors' = [monitors EXCEPT ![key] = m]
        /\ hbStore' = IF store_down THEN hbStore ELSE persist(hbStore, key, m)
        /\ wfTrace' = wfTrace \o <<"on_llm_invoked">>
        /\ wfPc' = IF store_down THEN "done" ELSE "replied"
        /\ wfResult' = IF store_down THEN Returned("raised", <<"save">>) ELSE wfResult
        /\ UNCHANGED <<created, now, hbCall, hbCalls, wf, wfCalls, raising_hooks, hook_seen,
                       store_down>>
        /\ UNCHANGED <<loopVars, ctxVars, concVars, poolVars, keyVars, parseVars, routerVars>>

\* lines 160-161: workflow.replied, return reply
WfReplied ==
    /\ wfPc = "replied"
    /\ wfTrace' = wfTrace \o <<"workflow.replied">>
    /\ Emitted(hook_seen, "done", Returned("reply", wf.reply))
    /\ UNCHANGED <<wf, wfCalls, raising_hooks, store_down>>
    /\ UNCHANGED <<hbVars, loopVars, ctxVars, concVars, poolVars, keyVars, parseVars, routerVars>>

NextWF ==
    \/ WfStart
    \/ WfDecide
    \/ WfDeclined
    \/ WfCompose
    \/ WfGenerate
    \/ WfRememberAssistant
    \/ WfOnLLMInvoked
    \/ WfReplied


\* ------------------------------------------------- ContextEngine: two threads

\* One step of thread t inside ContextEngine._remember (lines 95-101) for the
\* scope qq_group_1, as process calls it through remember_user_message. A step
\* is one statement; the thread may be switched between any two. The window
\* is a list object: `history` is a reference to it, and line 101 binds the
\* key to a new list.
RememberStep(t) ==
    LET th == threads[t]
        key == ScopeGroup1
        made == Len(heap) + 1
    IN  /\ \/ /\ th.pc = "start"
              /\ IF window_ref = 0
                 THEN /\ heap' = Append(heap, pool_recent(records_by_scope, recent_limit, key))
                      /\ window_ref' = made
                      /\ threads' = [threads EXCEPT ![t].pc = "has_history",
                                                    ![t].history = made]
                 ELSE /\ threads' = [threads EXCEPT ![t].pc = "has_history",
                                                    ![t].history = window_ref]
                      /\ UNCHANGED <<heap, window_ref>>
              /\ UNCHANGED records_by_scope
           \/ /\ th.pc = "has_history"
              /\ records_by_scope' = pool_append(records_by_scope, th.item, key)
              /\ threads' = [threads EXCEPT ![t].pc = "logged"]
              /\ UNCHANGED <<heap, window_ref>>
           \/ /\ th.pc = "logged"
              /\ heap' = [heap EXCEPT ![th.history] = Append(@, th.item)]
              /\ threads' = [threads EXCEPT ![t].pc = "appended"]
              /\ UNCHANGED <<window_ref, records_by_scope>>
           \/ /\ th.pc = "appended"
              /\ IF Len(heap[th.history]) > recent_limit
                 THEN /\ heap' = Append(heap, Trimmed(heap[th.history], recent_limit))
                      /\ window_ref' = made
                 ELSE UNCHANGED <<heap, window_ref>>
              /\ threads' = [threads EXCEPT ![t].pc = "done"]
              /\ UNCHANGED records_by_scope
        /\ UNCHANGED <<recent_limit, recent_context_by_scope, ctxCall, ctxCalls, log0>>
        /\ UNCHANGED <<hbVars, loopVars, wfVars, poolVars, keyVars, parseVars, routerVars>>

\* ------------------------------------------------- MemoryPool: the files

\* json.dumps(payload, ensure_ascii=False) + "\n" for the value `item`. The
\* opening of the object up to the value and its end after it are one element
\* each; inside the string a quote, a backslash and a newline are escaped.
\* (The variant writes the value as it is.)
dump_line_raw(item) ==
    <<"{\"value\": \"">> \o item \o <<"\", \"timestamp\": \"t\"}", "\n">>

dump_line(item) ==
    LET escaped(ch) == CASE ch = "\n" -> "\\n"
                         [] ch = "\"" -> "\\\""
                         [] ch = "\\" -> "\\\\"
                         [] OTHER -> ch
    IN  <<"{\"value\": \"">> \o [i \in 1..Len(item) |-> escaped(item[i])]
            \o <<"\", \"timestamp\": \"t\"}", "\n">>

RECURSIVE load_file(_)
\* MemoryPool._load_file: the lines of the file; each is stripped, an empty one
\* and one json.loads rejects are skipped, and the value of the others is a
\* record.
load_file(text) ==
    IF text = <<>> THEN <<>>
    ELSE LET ends == {i \in 1..Len(text) : text[i] = "\n"}
             stop == IF ends = {} THEN Len(text) + 1
                     ELSE CHOOSE i \in ends : \A j \in ends : i <= j
             line == Strip(SubSeq(text, 1, stop - 1))
             body == SubSeq(line, 2, Len(line) - 1)
             valid == /\ Len(line) >= 2
                      /\ line[1] = "{\"value\": \""
                      /\ line[Len(line)] = "\", \"timestamp\": \"t\"}"
                      /\ \A i \in 1..Len(body) :
                            body[i] \notin {"\n", "\"", "\\", "{\"value\": \"",
                                            "\", \"timestamp\": \"t\"}"}
             unescaped(ch) == CASE ch = "\\n" -> "\n"
                                [] ch = "\\\"" -> "\""
                                [] ch = "\\\\" -> "\\"
                                [] OTHER -> ch
             value == [i \in 1..Len(body) |-> unescaped(body[i])]
         IN  (IF valid THEN <<value>> ELSE <<>>)
                 \o load_file(SubSeq(text, stop + 1, Len(text)))

\* MemoryPool.append: the line is written to the file of the scope, then the
\* record is added in memory.
PoolAppend ==
    \E value \in {MsgBlank, MsgAbPadded, <<"A", "\n", "\"", "B">>, <<"u5929", " ", "\\">>},
       scope \in CtxScopes :
        /\ ctxCalls < MaxCtxCalls
        /\ ctxCalls' = ctxCalls + 1
        /\ ctxCall' = [NoCtxCall EXCEPT !.op = "append", !.scope = scope, !.msg = value]
        /\ records_by_scope' = pool_append(records_by_scope, value, scope)
        /\ files_by_scope' =
               IF Strip(value) = <<>> THEN files_by_scope
               ELSE [files_by_scope EXCEPT ![normalize_scope(scope)] =
                        @ \o dump_line(Strip(value))]
        /\ UNCHANGED <<recent_limit, recent_context_by_scope>>
        /\ UNCHANGED <<hbVars, loopVars, wfVars, concVars, keyVars, parseVars, routerVars>>

\* MemoryPool.__post_init__ of a new pool on the same directory.
PoolRestart ==
    /\ ctxCalls < MaxCtxCalls
    /\ ctxCalls' = ctxCalls + 1
    /\ ctxCall' = [NoCtxCall EXCEPT !.op = "restart"]
    /\ records_by_scope' = [k \in ScopeKeys |-> load_file(files_by_scope[k])]
    /\ UNCHANGED <<recent_limit, recent_context_by_scope, files_by_scope>>
    /\ UNCHANGED <<hbVars, loopVars, wfVars, concVars, keyVars, parseVars, routerVars>>

\* ------------------------------------------------- ContextEngine: keys

NoKeyCall == [op |-> "none", scope |-> ScopeDefault, registry_key |-> None,
              store_key |-> None, window_key |-> None, log_key |-> None]

\* _heartbeat_for_scope, as should_invoke_llm, on_llm_invoked and
\* heartbeat_snapshot call it: the monitor registered under the normalized
\* scope, or a new one whose state_scope is that key. The monitor loads and
\* saves its row under its state_scope.
HeartbeatForScope ==
    \E scope \in CtxScopes, op \in {"should_invoke_llm", "on_llm_invoked", "heartbeat_snapshot"} :
        LET normalized_scope == normalize_scope(scope)
            state_scope == IF heartbeat_monitors[normalized_scope] # None
                           THEN heartbeat_monitors[normalized_scope]
                           ELSE normalized_scope
        IN  /\ keyCalls < MaxCtxCalls
            /\ keyCalls' = keyCalls + 1
            /\ heartbeat_monitors' = [heartbeat_monitors EXCEPT ![normalized_scope] = state_scope]
            /\ keyCall' = [NoKeyCall EXCEPT !.op = op, !.scope = scope,
                                            !.registry_key = normalized_scope,
                                            !.store_key = state_scope]
            /\ UNCHANGED <<hbVars, loopVars, ctxVars, wfVars, concVars, poolVars, parseVars, routerVars>>

\* _recent_context and MemoryPool.append / recent, as remember_user_message,
\* remember_assistant_message and compose_input call them: the window is kept
\* under the normalized scope; the pool normalizes the scope it is given, which
\* is the caller's scope in append and the window's key in recent.
RecentContextOfScope ==
    \E scope \in CtxScopes, op \in {"remember_user_message", "compose_input"} :
        LET normalized_scope == normalize_scope(scope)
        IN  /\ keyCalls < MaxCtxCalls
            /\ keyCalls' = keyCalls + 1
            /\ keyCall' = [NoKeyCall EXCEPT !.op = op, !.scope = scope,
                                            !.window_key = normalized_scope,
                                            !.log_key = IF op = "compose_input"
                                                        THEN normalize_scope(normalized_scope)
                                                        ELSE normalize_scope(scope)]
            /\ UNCHANGED heartbeat_monitors
            /\ UNCHANGED <<hbVars, loopVars, ctxVars, wfVars, concVars, poolVars, parseVars, routerVars>>

\* ------------------------------------------------- AgentService: _parse_json

\* str.find and str.rfind: the first and the last position of `pat` in `text`,
\* 0 when there is none (positions count from 1).
Find(text, pat) ==
    LET at == {i \in 1..(Len(text) - Len(pat) + 1) : SubSeq(text, i, i + Len(pat) - 1) = pat}
    IN  IF at = {} THEN 0 ELSE CHOOSE i \in at : \A j \in at : i <= j

RFind(text, pat) ==
    LET at == {i \in 1..(Len(text) - Len(pat) + 1) : SubSeq(text, i, i + Len(pat) - 1) = pat}
    IN  IF at = {} THEN 0 ELSE CHOOSE i \in at : \A j \in at : i >= j

RECURSIVE Replace(_, _, _)
\* str.replace(old, new)
Replace(text, old, new) ==
    LET i == Find(text, old)
    IN  IF i = 0 THEN text
        ELSE SubSeq(text, 1, i - 1) \o new
                 \o Replace(SubSeq(text, i + Len(old), Len(text)), old, new)

\* The first position from i on that holds no whitespace
SkipWs(t, i) ==
    LET rest == {j \in i..Len(t) : t[j] \notin Whitespace}
    IN  IF rest = {} THEN Len(t) + 1 ELSE CHOOSE j \in rest : \A k \in rest : j <= k

ParseFailed == [ok |-> FALSE, value |-> JNull, next |-> 0]

RECURSIVE ParseValue(_, _), ParsePairs(_, _, _)
\* json.loads, the value that starts at position i: a string (no line break in
\* it), true, false, or an object. A word of the text is one element, and the
\* key of a member is one word.
ParseValue(t, i) ==
    IF i > Len(t) THEN ParseFailed
    ELSE IF t[i] = "\""
    THEN LET close == {j \in (i + 1)..Len(t) : t[j] = "\""}
         IN  IF close = {} THEN ParseFailed
             ELSE LET j == CHOOSE k \in close : \A l \in close : k <= l
                      body == SubSeq(t, i + 1, j - 1)
                  IN  IF \E k \in 1..Len(body) : body[k] = "\n" THEN ParseFailed
                      ELSE [ok |-> TRUE, value |-> JStr(body), next |-> j + 1]
    ELSE IF t[i] \in {"true", "false"}
    THEN [ok |-> TRUE, value |-> JBool(t[i] = "true"), next |-> i + 1]
    ELSE IF t[i] = "{"
    THEN LET j == SkipWs(t, i + 1)
         IN  IF j <= Len(t) /\ t[j] = "}"
             THEN [ok |-> TRUE, value |-> JDict(<<>>), next |-> j + 1]
             ELSE ParsePairs(t, j, <<>>)
    ELSE ParseFailed

\* the members of an object from position i on, after the members `pairs`
ParsePairs(t, i, pairs) ==
    LET key == IF i <= Len(t) /\ t[i] = "\"" THEN ParseValue(t, i) ELSE ParseFailed
        colon == IF key.ok /\ Len(key.value.s) = 1 THEN SkipWs(t, key.next) ELSE 0
        member == IF colon # 0 /\ colon <= Len(t) /\ t[colon] = ":"
                  THEN ParseValue(t, SkipWs(t, colon + 1)) ELSE ParseFailed
        after == IF member.ok THEN SkipWs(t, member.next) ELSE 0
        all == Append(pairs, <<key.value.s[1], member.value>>)
    IN  IF ~member.ok \/ after > Len(t) THEN ParseFailed
        ELSE IF t[after] = "}" THEN [ok |-> TRUE, value |-> JDict(all), next |-> after + 1]
        ELSE IF t[after] = "," THEN ParsePairs(t, SkipWs(t, after + 1), all)
        ELSE ParseFailed

\* json.loads(text): ok = FALSE stands for json.JSONDecodeError
json_loads(text) ==
    LET parsed == ParseValue(text, SkipWs(text, 1))
    IN  IF parsed.ok /\ SkipWs(text, parsed.next) = Len(text) + 1
        THEN [ok |-> TRUE, value |-> parsed.value]
        ELSE [ok |-> FALSE, value |-> JNull]

\* {"type": "tool_call", **loaded}
AsToolCall(loaded) ==
    IF HasKey(loaded, "type")
    THEN JDict(<< <<"type", Get(loaded, "type")>> >>
                   \o SelectSeq(loaded.items, LAMBDA pair : pair[1] # "type"))
    ELSE JDict(<< <<"type", JStr(<<"tool_call">>)>> >> \o loaded.items)

\* AgentService._parse_json; JNull stands for None.
parse_json(raw) ==
    LET text == Strip(raw)
        whole == json_loads(text)
        start_tag == Find(text, <<"[TOOL_CALL]">>)
        end_tag == RFind(text, <<"[/TOOL_CALL]">>)
        block0 == Strip(SubSeq(text, start_tag + 1, end_tag - 1))
        block1 == Replace(block0, <<"=>">>, <<":">>)
        block2 == Replace(block1, <<"{", "tool", " ", ":">>, <<"{", "\"", "tool", "\"", ":">>)
        block3 == Replace(block2, <<",", " ", "arguments", " ", ":">>,
                          <<",", " ", "\"", "arguments", "\"", ":">>)
        block4 == IF block3 # <<>> /\ block3[1] = "{" THEN block3 ELSE <<"{">> \o block3
        block5 == IF block4[Len(block4)] = "}" THEN block4 ELSE block4 \o <<"}">>
        repaired == IF start_tag # 0 /\ end_tag # 0 /\ end_tag > start_tag
                    THEN json_loads(block5) ELSE [ok |-> FALSE, value |-> JNull]
        start == Find(text, <<"{">>)
        end == RFind(text, <<"}">>)
        inner == IF start = 0 \/ end = 0 \/ end <= start THEN [ok |-> FALSE, value |-> JNull]
                 ELSE json_loads(SubSeq(text, start, end))
    IN  IF text = <<>> THEN JNull
        ELSE IF whole.ok /\ whole.value.t = "dict" THEN whole.value
        ELSE IF repaired.ok /\ repaired.value.t = "dict" THEN AsToolCall(repaired.value)
        ELSE IF inner.ok /\ inner.value.t = "dict" THEN inner.value
        ELSE JNull

NotParsed == [t |-> "not parsed"]
NoArguments == <<"<none>">>

\* The arguments objects a model writes into a block.
ArgumentsTexts ==
    {<<"{", "}">>,
     <<"{", "\"", "content", "\"", ":", " ", "\"", "h", "i", "\"", "}">>,
     <<"{", "\"", "content", "\"", ":", " ", "\"", "h", "i", "\"", ",", " ",
       "\"", "should_reply", "\"", ":", " ", "true", "}">>,
     <<"{", "\"", "content", "\"", ":", " ", "\"", "a", " ", "=>", " ", "b", "\"", "}">>,
     <<"{", "\"", "content", "\"", ":", " ", "\"", "x", ",", " ", "arguments", " ", ":",
       " ", "y", "\"", "}">>}

\* [TOOL_CALL]{tool => "emit_reply", arguments => {...}}[/TOOL_CALL]
ToolCallBlock(gap, arguments) ==
    <<"[TOOL_CALL]">> \o gap
        \o <<"{", "tool", " ", "=>", " ", "\"">> \o final_reply_tool
        \o <<"\"", ",", " ", "arguments", " ", "=>", " ">> \o arguments \o <<"}">>
        \o gap \o <<"[/TOOL_CALL]">>

\* Model outputs: a block, alone or with text around it; an object; an object
\* with text around it; an object that quotes a block; text; nothing.
LLMOutputs ==
    {[text |-> before \o ToolCallBlock(gap, arguments) \o after, arguments |-> arguments] :
        before \in {<<>>, <<"o", "k", " ">>, <<"\n">>}, gap \in {<<>>, <<"\n">>},
        arguments \in ArgumentsTexts, after \in {<<>>, <<" ", "y">>}}
    \cup
    {[text |-> text, arguments |-> NoArguments] :
        text \in {<<>>, <<" ", "\n">>, <<"o", "k">>,
                  <<"{", "\"", "type", "\"", ":", " ", "\"", "final", "\"", "}">>,
                  <<"o", "k", " ", "{", "\"", "type", "\"", ":", "\"", "final", "\"", "}", "\n">>,
                  <<"{", "\"", "content", "\"", ":", " ", "\"", "[TOOL_CALL]", "{", "tool",
                    " ", "=>", " ", "x", "}", "[/TOOL_CALL]", "\"", "}">>,
                  <<"\"", "h", "i", "\"">>}}

\* self._parse_json(raw) on the output of one generation call
ParseJson ==
    /\ parsed_output = NotParsed
    /\ parsed_output' = parse_json(llm_output.text)
    /\ UNCHANGED llm_output
    /\ UNCHANGED <<hbVars, loopVars, ctxVars, wfVars, concVars, poolVars, keyVars, routerVars>>

\* ------------------------------------------------- specifications

\* Each specification runs one component; the others rest in a fixed state.
HBQuiet ==
    /\ monitors = [s \in ScopeKeys |-> IdleMonitor]
    /\ created = {}
    /\ hbStore = [s \in ScopeKeys |-> NoRow]
    /\ now = 1
    /\ hbCall = NoCall
    /\ hbCalls = 0

LoopQuiet ==
    /\ max_steps = MaxStepsConfigured
    /\ mcp_client = FALSE
    /\ cached_tools = FALSE
    /\ pc = "idle"
    /\ call = NoArgs
    /\ step = 0
    /\ gen_calls = 0
    /\ tool_calls = 0
    /\ direct_calls = 0
    /\ prompt = "none"
    /\ round = NoRound
    /\ result = NoResult

CtxQuiet ==
    /\ recent_limit = RecentLimitMax
    /\ records_by_scope = [k \in ScopeKeys |-> <<>>]
    /\ recent_context_by_scope = [k \in ScopeKeys |-> NotLoaded]
    /\ ctxCall = NoCtxCall
    /\ ctxCalls = 0

WFQuiet ==
    /\ wfPc = "idle"
    /\ wf = NoWF
    /\ wfTrace = <<>>
    /\ wfResult = Pending
    /\ wfCalls = 0
    /\ raising_hooks = {}
    /\ hook_seen = [h \in hooks |-> 0]
    /\ store_down = FALSE

ConcQuiet ==
    /\ heap = <<>>
    /\ window_ref = 0
    /\ threads = [t \in {1, 2} |-> [pc |-> "done", item |-> <<>>, history |-> 0]]
    /\ log0 = <<>>

\* The directory is modelled in SpecPool only.
PoolQuiet == files_by_scope = [k \in ScopeKeys |-> <<>>]

\* The keys are followed in SpecKeys only.
KeyQuiet ==
    /\ heartbeat_monitors = [k \in ScopeKeys |-> None]
    /\ keyCall = NoKeyCall
    /\ keyCalls = 0

\* Outputs are parsed in SpecParse only.
RouterQuiet ==
    /\ router_allowed_group_ids = allowed_group_ids
    /\ routerCall = NoRouterCall

ParseQuiet ==
    /\ llm_output = [text |-> <<>>, arguments |-> NoArguments]
    /\ parsed_output = NotParsed

\* A HeartbeatMonitor on its store, called directly.
InitSpecHB == InitHB /\ LoopQuiet /\ CtxQuiet /\ WFQuiet /\ ConcQuiet /\ PoolQuiet /\ KeyQuiet /\ ParseQuiet /\ RouterQuiet

SpecHB == InitSpecHB /\ [][NextHB]_vars

\* A HeartbeatMonitor with the default parameters and no stored row.
InitSpecFresh ==
    /\ now = 1
    /\ \E scope \in MonitorScopes : created = {scope}
    /\ monitors = [s \in ScopeKeys |-> IdleMonitor]
    /\ hbStore = [s \in ScopeKeys |-> NoRow]
    /\ hbCall = NoCall
    /\ hbCalls = 0
    /\ LoopQuiet
    /\ CtxQuiet
    /\ WFQuiet
    /\ ConcQuiet
    /\ PoolQuiet
    /\ KeyQuiet
    /\ ParseQuiet
    /\ RouterQuiet

\* It is given passive messages only, up to its first engagement.
SpecPassive == InitSpecFresh /\ [][PassiveMessage]_vars

\* It is called in any way.
SpecFresh == InitSpecFresh /\ [][NextHB]_vars

\* AgentService.process_input and the tool loop.
InitSpecLoop == InitLoop /\ HBQuiet /\ CtxQuiet /\ WFQuiet /\ ConcQuiet /\ PoolQuiet /\ KeyQuiet /\ ParseQuiet /\ RouterQuiet

SpecLoop == InitSpecLoop /\ [][NextLoop]_vars

\* Every generation and tool call returns or times out (LLMService.timeout,
\* OfficialMCPClient.request_timeout), so a started loop keeps taking rounds.
SpecLoopFair == SpecLoop /\ WF_vars(LoopStep)

\* A ContextEngine on its MemoryPool, called directly.
InitSpecCtx == InitCtx /\ HBQuiet /\ LoopQuiet /\ WFQuiet /\ ConcQuiet /\ PoolQuiet /\ KeyQuiet /\ ParseQuiet /\ RouterQuiet

SpecCtx == InitSpecCtx /\ [][NextCtx]_vars

\* MessageWorkflow.process over the context engine and its monitors.
InitSpecWF == InitWF /\ LoopQuiet /\ ConcQuiet /\ PoolQuiet /\ KeyQuiet /\ ParseQuiet /\ RouterQuiet

SpecWF == InitSpecWF /\ [][NextWF]_vars

\* MessageWorkflow.process with hooks that raise and a store that has gone down
\* after construction.
InitSpecFaults ==
    /\ InitWFOver({r \in InitialRows : ~r.exists \/ r.tense_until_ts = 3}, {<<>>},
                  SUBSET hooks, BOOLEAN)
    /\ LoopQuiet
    /\ ConcQuiet
    /\ PoolQuiet
    /\ KeyQuiet
    /\ ParseQuiet
    /\ RouterQuiet

SpecFaults == InitSpecFaults /\ [][NextWF]_vars

\* Two threads, each in one remember_user_message of process for the same
\* scope, switched between statements.
InitSpecConc ==
    /\ recent_limit \in 1..RecentLimitMax
    /\ \E log \in InitialLogs :
          /\ records_by_scope = [k \in ScopeKeys |-> IF k = ScopeGroup1 THEN log ELSE <<>>]
          /\ log0 = log
    /\ recent_context_by_scope = [k \in ScopeKeys |-> NotLoaded]
    /\ ctxCall = NoCtxCall
    /\ ctxCalls = 0
    /\ heap = <<>>
    /\ window_ref = 0
    /\ threads = [t \in {1, 2} |->
                     [pc |-> "start",
                      item |-> UserPrefix \o (IF t = 1 THEN MsgAb ELSE MsgCd),
                      history |-> 0]]
    /\ HBQuiet
    /\ LoopQuiet
    /\ WFQuiet
    /\ PoolQuiet
    /\ KeyQuiet
    /\ ParseQuiet
    /\ RouterQuiet

SpecConc == InitSpecConc /\ [][\E t \in {1, 2} : RememberStep(t)]_vars

\* A MemoryPool on a directory that holds one file with an empty line, a line
\* that is not JSON and a record, or no file; appends and restarts.
InitSpecPool ==
    /\ \E text \in {<<>>, <<"\n", "x", "\n">> \o dump_line(<<"o", "k">>)} :
          files_by_scope = [k \in ScopeKeys |-> IF k = ScopeDefault THEN text ELSE <<>>]
    /\ records_by_scope = [k \in ScopeKeys |-> load_file(files_by_scope[k])]
    /\ recent_limit = RecentLimitMax
    /\ recent_context_by_scope = [k \in ScopeKeys |-> NotLoaded]
    /\ ctxCall = NoCtxCall
    /\ ctxCalls = 0
    /\ HBQuiet
    /\ LoopQuiet
    /\ WFQuiet
    /\ ConcQuiet
    /\ KeyQuiet
    /\ ParseQuiet
    /\ RouterQuiet

SpecPool == InitSpecPool /\ [][PoolAppend \/ PoolRestart]_vars

\* A ContextEngine constructed on a template monitor whose state_scope is the
\* configured "heartbeat.scope" (stripped, not empty; "default" when absent).
InitSpecKeys ==
    /\ \E template_scope \in {ScopeDefault, ScopeGroup1, Strip(ScopeGroup1Spaced)} :
          heartbeat_monitors = [k \in ScopeKeys |->
                                   IF k = normalize_scope(template_scope)
                                   THEN template_scope ELSE None]
    /\ keyCall = NoKeyCall
    /\ keyCalls = 0
    /\ HBQuiet
    /\ LoopQuiet
    /\ CtxQuiet
    /\ WFQuiet
    /\ ConcQuiet
    /\ PoolQuiet
    /\ ParseQuiet
    /\ RouterQuiet

SpecKeys == InitSpecKeys /\ [][HeartbeatForScope \/ RecentContextOfScope]_vars

\* _parse_json on one output of the model.
InitSpecParse ==
    /\ llm_output \in LLMOutputs
    /\ parsed_output = NotParsed
    /\ HBQuiet
    /\ LoopQuiet
    /\ CtxQuiet
    /\ WFQuiet
    /\ ConcQuiet
    /\ PoolQuiet
    /\ KeyQuiet
    /\ RouterQuiet

\* Router(allowed_group_ids=...), then should_process_message calls
InitSpecRouter ==
    /\ router_allowed_group_ids \in RouterAllowLists
    /\ routerCall = NoRouterCall
    /\ HBQuiet
    /\ LoopQuiet
    /\ CtxQuiet
    /\ WFQuiet
    /\ ConcQuiet
    /\ PoolQuiet
    /\ KeyQuiet
    /\ ParseQuiet

SpecRouter == InitSpecRouter /\ [][ShouldProcessMessage]_vars

SpecParse == InitSpecParse /\ [][ParseJson]_vars

\* ------------------------------------------------- HeartbeatMonitor: claims

DirectCall ==
    /\ hbCall.op = "should_invoke_llm"
    /\ hbCall.is_at_message
    /\ Strip(hbCall.message) # <<>>

PassiveCall ==
    /\ hbCall.op = "should_invoke_llm"
    /\ ~hbCall.is_at_message
    /\ Strip(hbCall.message) # <<>>

\* C1: a directed message that is not empty after trimming is always engaged,
\* whatever the state before: the call returns True and leaves the scope tense
\* with the trimmed message as focus and the deadline at now + hold, and the
\* row of the scope in the store is that state.
C1_DirectAlwaysEngages ==
    DirectCall =>
        LET m == monitors[hbCall.scope]
        IN  /\ hbCall.result = TRUE
            /\ m.tense
            /\ m.focus_text = Strip(hbCall.message)
            /\ m.tense_until_ts = hbCall.at + tense_hold_seconds
            /\ hbStore[hbCall.scope] = RowOf(m)

\* A directed, padded message arrived when the previous hold was over and the
\* arousal was above zero.
C1_Witness ==
    /\ DirectCall
    /\ hbCall.message # Strip(hbCall.message)
    /\ hbCall.pre.tense
    /\ hbCall.pre.tense_until_ts > 0
    /\ hbCall.at >= hbCall.pre.tense_until_ts
    /\ hbCall.pre.heartbeat > 0

\* C2: a passive message that is not related to the focus, arriving while the
\* hold is running, is declined and resets the scope to idle, persisted.
C2_UnrelatedInHoldResets ==
    ( /\ PassiveCall
      /\ hbCall.pre.tense
      /\ hbCall.at < hbCall.pre.tense_until_ts
      /\ hbCall.pre.focus_text # <<>>
      /\ ~is_related(hbCall.pre, Strip(hbCall.message)) )
    => /\ hbCall.result = FALSE
       /\ monitors[hbCall.scope] = IdleMonitor
       /\ hbStore[hbCall.scope] = RowOf(IdleMonitor)

\* ------------------------------------------------- AgentService: claims

\* The should_reply that counts for a terminal call: the one of the payload
\* embedded in the tool result, else the one of the model's arguments; a
\* missing one counts as true.
ShouldReplyIsFalse(tool_result, arguments) ==
    LET payload == extract_reply_payload(tool_result)
        given == Get(arguments, "should_reply")
    IN  IF payload.found THEN ~payload.should_reply
        ELSE HasKey(arguments, "should_reply") /\ given.t = "bool" /\ ~given.b

LoopReturned == pc = "done" /\ call.in_loop

\* The last round called the terminal tool and the call succeeded.
TerminalCallSucceeded ==
    /\ RoundKind(round.parsed) = "call"
    /\ Get(round.parsed, "tool").s = final_reply_tool
    /\ round.kind = "terminal"
    /\ ~round.outcome.raised
    /\ tool_calls >= 1

\* C3: _run_tool_loop returns a non-empty string only if a round within the
\* budget named the terminal tool, that tool call succeeded, and the should_reply
\* that counts was not false.
C3_NonEmptyOnlyByTerminalTool ==
    (LoopReturned /\ result # <<>>) =>
        /\ TerminalCallSucceeded
        /\ step <= max_steps
        /\ ~ShouldReplyIsFalse(round.outcome.value, ArgumentsOf(round.parsed))

\* The third round returned a reply taken from a payload inside a text block of
\* the tool result, against the model's own should_reply = false.
C3_Witness ==
    /\ LoopReturned
    /\ result = <<"o", "k">>
    /\ step = 3
    /\ ~find_reply_payload(round.outcome.value).found
    /\ extract_reply_payload(round.outcome.value).found
    /\ Get(ArgumentsOf(round.parsed), "should_reply").t = "bool"
    /\ ~Get(ArgumentsOf(round.parsed), "should_reply").b

\* C4: when max_steps rounds have gone by without a successful terminal call,
\* the loop returns "" and has not called llm_service.process_input.
C4_ExhaustionReturnsEmpty ==
    /\ call.in_loop => direct_calls = 0
    /\ (LoopReturned /\ ~TerminalCallSucceeded) =>
           /\ result = <<>>
           /\ step = Max2(0, max_steps)

\* Three rounds used the budget up, the last one a successful call of a tool
\* that is not the terminal one.
C4_Witness ==
    /\ LoopReturned
    /\ max_steps = 3
    /\ step = 3
    /\ round.kind = "continue"
    /\ ~round.outcome.raised

LoopBudgetKept ==
    call.in_loop =>
        /\ gen_calls = step
        /\ gen_calls <= Max2(0, max_steps)
        /\ tool_calls <= gen_calls
        /\ (pc = "done") = (result # NoResult)
        /\ (pc = "done" /\ max_steps <= 0) => (gen_calls = 0 /\ tool_calls = 0 /\ result = <<>>)

\* C5: whatever the model and the tools answer, a started loop ends with one
\* result, after one generation call per round, at most max_steps of them, and
\* at most one tool call per round; with max_steps <= 0 it calls nothing and
\* returns "".
C5_LoopTerminatesWithinBudget ==
    /\ []LoopBudgetKept
    /\ (pc = "loop") ~> (pc = "done")

\* A loop that used its whole budget of generation and tool calls.
C5_Witness ==
    /\ LoopReturned
    /\ max_steps = 3
    /\ gen_calls = 3
    /\ tool_calls = 3
    /\ round.kind = "tool_failed"

\* C10: in tense mode a passive message is gated: one gate call
\* (process_input_with_system), and unless it answers "true" the result is ""
\* with no call of llm_service.process_input and no tool loop.
C10_PassiveTenseGateBlocks ==
    ( /\ pc = "done"
      /\ call.reply_mode = "tense"
      /\ ~call.is_at_message
      /\ call.gate_response # "true" )
    => /\ result = <<>>
       /\ direct_calls = 0
       /\ gen_calls = 1
       /\ ~call.in_loop

\* ------------------------------------------------- ContextEngine: claims

\* C6: with a recent_limit of at least 1, after any calls of
\* remember_user_message and remember_assistant_message, the window of every
\* scope accessed so far is the last recent_limit records of the log of that
\* scope.
C6_WindowIsLogTail ==
    recent_limit >= 1 =>
        \A k \in ScopeKeys :
            recent_context_by_scope[k].loaded =>
                recent_context_by_scope[k].items = LastOf(records_by_scope[k], recent_limit)

\* A message was recorded under a scope given with blanks, on top of a log that
\* was already longer than the window, which was cut to recent_limit.
C6_Witness ==
    /\ ctxCall.op = "remember_assistant_message"
    /\ ctxCall.written
    /\ ctxCall.scope = ScopeGroup1Spaced
    /\ recent_limit = 2
    /\ Len(records_by_scope[ScopeGroup1]) = 5
    /\ recent_context_by_scope[ScopeGroup1].loaded
    /\ Len(recent_context_by_scope[ScopeGroup1].items) = 2

\* ------------------------------------------------- MessageWorkflow: claims

Called(name) == \E i \in 1..Len(wfTrace) : wfTrace[i] = name

TimesCalled(name) == Cardinality({i \in 1..Len(wfTrace) : wfTrace[i] = name})

\* every `later` in the trace has an `earlier` before it
Before(earlier, later) ==
    \A i \in 1..Len(wfTrace) :
        wfTrace[i] = later => \E j \in 1..(i - 1) : wfTrace[j] = earlier

WfKey == normalize_scope(wf.scope)

\* the log of the scope, from the record this call added first
AddedToLog ==
    SubSeq(records_by_scope[WfKey], Len(wf.preLog) + 1, Len(records_by_scope[WfKey]))

UserItem == UserPrefix \o wf.clean

AssistantItem == AssistantPrefix \o Strip(wf.reply)

NonEmptyReplyReturned == wf.generated /\ Strip(wf.reply) # <<>>

\* C7: for an admitted message, the user message is in the context store before
\* router.process_agent is called; an assistant record is added only after
\* process_agent returned a reply that is not empty after trimming;
\* on_llm_invoked is called only after such a reply, after the assistant record
\* and before workflow.replied.
C7_SideEffectsOrdered ==
    wf.admitted =>
        /\ Before("remember_user_message", "process_agent")
        /\ Called("process_agent") => (AddedToLog # <<>> /\ AddedToLog[1] = UserItem)
        /\ Before("process_agent", "remember_assistant_message")
        /\ Called("remember_assistant_message") => NonEmptyReplyReturned
        /\ Len(AddedToLog) > 1 =>
               /\ NonEmptyReplyReturned
               /\ Called("remember_assistant_message")
               /\ AddedToLog = <<UserItem, AssistantItem>>
        /\ Before("remember_assistant_message", "on_llm_invoked")
        /\ Called("on_llm_invoked") =>
               (NonEmptyReplyReturned /\ AddedToLog = <<UserItem, AssistantItem>>)
        /\ (wfPc \notin {"decide"} /\ monitors[WfKey] # wf.decided) => Called("on_llm_invoked")
        /\ Before("on_llm_invoked", "workflow.replied")
        /\ wfResult.kind = "reply" =>
               (Called("workflow.replied") /\ wfTrace[Len(wfTrace)] = "workflow.replied")

\* The second message of a scope was answered with a padded reply: its call ran
\* to workflow.replied with the history composed in.
C7_Witness ==
    /\ wfPc = "done"
    /\ wfCalls = 2
    /\ wf.admitted
    /\ wf.has_history
    /\ wfResult = Returned("reply", ReplyCdPadded)
    /\ wfTrace[Len(wfTrace)] = "workflow.replied"
    /\ AddedToLog = <<UserItem, AssistantItem>>

NoReplyCase ==
    /\ wfPc = "done"
    /\ wf.admitted
    /\ wf.generated
    /\ Strip(wf.reply) = <<>>

\* C8: when process_agent returns an empty or blank reply, process emits
\* workflow.no_reply and returns None; no assistant record is added to the log
\* or to the window, on_llm_invoked is not called, and the engagement state of
\* the scope is the one the decision left.
C8_EmptyReplyLeavesNoTrace ==
    NoReplyCase =>
        /\ wfTrace[Len(wfTrace)] = "workflow.no_reply"
        /\ wfResult = Returned("none", <<>>)
        /\ AddedToLog = <<UserItem>>
        /\ recent_context_by_scope[WfKey].items =
               LastOf(wf.preLog \o <<UserItem>>, recent_limit)
        /\ ~Called("remember_assistant_message")
        /\ ~Called("on_llm_invoked")
        /\ monitors[WfKey] = wf.decided
        /\ hbStore[WfKey] = wf.decidedRow

\* A directed message made the scope tense, and the blank reply that came back
\* later left it so.
C8_Witness ==
    /\ NoReplyCase
    /\ wf.reply = MsgBlank
    /\ wf.at_user
    /\ wf.decided.tense
    /\ wf.decided.tense_until_ts = now + 1

DeclinedCase ==
    /\ wfPc = "done"
    /\ wf.admitted
    /\ ~wf.should_reply

\* C9: when the engagement decision is False, process records the user message
\* in the context of the scope exactly once, calls neither compose_input nor
\* process_agent nor on_llm_invoked, and returns None.
C9_DeclinedOnlyRecords ==
    DeclinedCase =>
        /\ TimesCalled("remember_user_message") = 1
        /\ AddedToLog = <<UserItem>>
        /\ recent_context_by_scope[WfKey].loaded
        /\ recent_context_by_scope[WfKey].items =
               LastOf(wf.preLog \o <<UserItem>>, recent_limit)
        /\ ~Called("compose_input")
        /\ ~Called("process_agent")
        /\ ~Called("on_llm_invoked")
        /\ monitors[WfKey] = wf.decided
        /\ wfResult = Returned("none", <<>>)

\* A passive message to a group whose log was longer than the window was
\* declined by the draw.
C9_Witness ==
    /\ DeclinedCase
    /\ WfKey = ScopeGroup1
    /\ ~wf.at_user
    /\ Len(wf.preLog) = 3
    /\ wf.decided.heartbeat > 0
    /\ ~wf.decided.tense

\* ------------------------------------------------- AgentService: the gate

PassiveTense == call.reply_mode = "tense" /\ ~call.is_at_message

\* C11: on the path without tools, where process_input_with_system is called
\* for the gate alone, process_input makes one gate call exactly when reply_mode
\* is "tense" and the message is not directed, and none otherwise; when the gate
\* is skipped or answers "true", one call of llm_service.process_input follows
\* and its result is returned.
C11_GateIffPassiveTense ==
    (pc = "done" /\ ~call.in_loop) =>
        /\ (gen_calls = 1) = PassiveTense
        /\ gen_calls \in {0, 1}
        /\ (~PassiveTense \/ call.gate_response = "true") =>
               (direct_calls = 1 /\ result \in LLMReplies)

\* ------------------------------------------------- HeartbeatMonitor: more claims

ExpiredBefore ==
    /\ hbCall.pre.tense
    /\ hbCall.pre.tense_until_ts > 0
    /\ hbCall.at >= hbCall.pre.tense_until_ts

\* C12: a passive message that arrives when the hold of a tense scope is over
\* finds the scope reset to idle and is decided by the idle rule: the heartbeat
\* becomes wakeup_growth, one value is drawn, and the call returns True exactly
\* when the draw is below heartbeat / max_heartbeat, whether or not the message
\* is related to the old focus.
C12_ExpiredHoldDecidesFromIdle ==
    (PassiveCall /\ ExpiredBefore) =>
        LET m == monitors[hbCall.scope]
            grown == Min2(max_heartbeat, wakeup_growth)
        IN  /\ hbCall.draws = 1
            /\ hbCall.result = (hbCall.r < grown)
            /\ m = IF hbCall.result
                   THEN [heartbeat |-> grown, tense |-> TRUE,
                         focus_text |-> Strip(hbCall.message), tense_until_ts |-> 0]
                   ELSE [IdleMonitor EXCEPT !.heartbeat = grown]
            /\ hbStore[hbCall.scope] = RowOf(m)

\* After the hold was over, a message that shares two CJK characters with the
\* old focus was declined by the draw.
C12_Witness ==
    /\ PassiveCall
    /\ ExpiredBefore
    /\ hbCall.pre.focus_text = MsgJinTianTianQi
    /\ hbCall.message = MsgTianQiHao
    /\ is_related(hbCall.pre, Strip(hbCall.message))
    /\ hbCall.r = 6
    /\ ~hbCall.result

\* C13: after every should_invoke_llm call that returns True the heartbeat is
\* at least min(max_heartbeat, tense_floor + tense_boost).
C13_EngagementRaisesHeartbeat ==
    (hbCall.op = "should_invoke_llm" /\ hbCall.result) =>
        /\ monitors[hbCall.scope].heartbeat >= Min2(max_heartbeat, tense_floor + tense_boost)
        /\ monitors[hbCall.scope].heartbeat >= hbCall.pre.heartbeat

\* C14: the heartbeat of every monitor constructed so far lies in
\* 0 .. max_heartbeat, from the state loaded at construction on and after any
\* calls.
C14_HeartbeatInRange ==
    \A s \in created :
        /\ monitors[s].heartbeat >= 0
        /\ monitors[s].heartbeat <= max_heartbeat

\* A monitor loaded from a row with heartbeat 130 started at max_heartbeat, and
\* a passive message that grew it left it there.
C14_Witness ==
    /\ PassiveCall
    /\ hbCall.preRow.exists
    /\ hbCall.preRow.heartbeat = 130
    /\ hbCall.pre.heartbeat = max_heartbeat
    /\ hbCall.draws = 1
    /\ monitors[hbCall.scope].heartbeat = max_heartbeat

\* C15: whenever time passes between calls, a tense monitor has no deadline or
\* a deadline still ahead: a tense flag whose hold is over is never seen.
C15_TenseImpliesHoldRunning ==
    \A s \in created :
        monitors[s].tense =>
            (monitors[s].tense_until_ts = 0 \/ now < monitors[s].tense_until_ts)

\* C16: the first decision after a hold is over, directed or passive, is taken
\* from the idle state: the state after it is the one the same call leaves on
\* an idle monitor, so the old heartbeat and focus are gone.
C16_DecisionAfterExpiryFromIdle ==
    ( /\ hbCall.op = "should_invoke_llm"
      /\ Strip(hbCall.message) # <<>>
      /\ ExpiredBefore )
    => monitors[hbCall.scope] =
           should_invoke_llm(IdleMonitor, hbCall.message, hbCall.is_at_message,
                             hbCall.at, IF hbCall.r = -1 THEN 0 ELSE hbCall.r).mon

\* the heartbeat after the idle growth step
GrownFrom(h) ==
    IF h <= 0 THEN Min2(max_heartbeat, wakeup_growth) ELSE Min2(max_heartbeat, h + idle_growth)

\* C17: a passive message to a scope that is not tense grows the heartbeat (to
\* wakeup_growth from zero, by idle_growth otherwise, capped at max_heartbeat),
\* draws one value, and returns True exactly when the draw is below
\* heartbeat / max_heartbeat for the grown heartbeat; on True the scope becomes
\* tense with the message, trimmed, as focus; the state is persisted either way.
C17_IdleGrowthAndDraw ==
    (PassiveCall /\ ~hbCall.pre.tense) =>
        LET m == monitors[hbCall.scope]
            grown == GrownFrom(hbCall.pre.heartbeat)
        IN  /\ hbCall.draws = 1
            /\ hbCall.result = (hbCall.r < grown)
            /\ m.heartbeat = grown
            /\ m.tense = hbCall.result
            /\ m.focus_text = IF hbCall.result THEN Strip(hbCall.message)
                              ELSE hbCall.pre.focus_text
            /\ m.tense_until_ts = hbCall.pre.tense_until_ts
            /\ hbCall.persisted
            /\ hbStore[hbCall.scope] = RowOf(m)

\* A second passive message grew the heartbeat from 6 to 8 and was engaged by a
\* draw of 0.06, which had declined the first.
C17_Witness ==
    /\ PassiveCall
    /\ ~hbCall.pre.tense
    /\ hbCall.pre.heartbeat = wakeup_growth
    /\ monitors[hbCall.scope].heartbeat = wakeup_growth + idle_growth
    /\ hbCall.r = 6
    /\ hbCall.result
    /\ hbCall.message = MsgAbPadded

HoldRunningBefore ==
    /\ hbCall.pre.tense
    /\ hbCall.at < hbCall.pre.tense_until_ts

\* C18: a passive message related to the focus (a shared word, two shared CJK
\* characters, or no focus at all), arriving while the hold is running, is
\* engaged: the call returns True, the message, trimmed, becomes the focus, the
\* deadline becomes now + hold, and the state is persisted.
C18_RelatedInHoldRefreshes ==
    (PassiveCall /\ HoldRunningBefore /\ is_related(hbCall.pre, Strip(hbCall.message))) =>
        LET m == monitors[hbCall.scope]
        IN  /\ hbCall.result
            /\ m = [hbCall.pre EXCEPT !.focus_text = Strip(hbCall.message),
                                      !.tense_until_ts = hbCall.at + tense_hold_seconds]
            /\ hbCall.persisted
            /\ hbStore[hbCall.scope] = RowOf(m)

\* One tick into the hold, a message sharing two CJK characters with the focus
\* moved the focus and the deadline.
C18_Witness ==
    /\ PassiveCall
    /\ HoldRunningBefore
    /\ hbCall.at = 2
    /\ hbCall.pre.focus_text = MsgJinTianTianQi
    /\ hbCall.message = MsgTianQiHao
    /\ monitors[hbCall.scope].focus_text = MsgTianQiHao
    /\ monitors[hbCall.scope].tense_until_ts = 2 + tense_hold_seconds

\* C19, as the claim words it: after on_llm_invoked the scope is tense, the
\* focus is trim(trigger) + " " + trim(reply), the deadline is now + hold, and
\* the row of the scope is that state.
C19_FocusIsTriggerSpaceReply ==
    hbCall.op = "on_llm_invoked" =>
        LET m == monitors[hbCall.scope]
        IN  /\ m.tense
            /\ m.focus_text = Strip(hbCall.message) \o <<" ">> \o Strip(hbCall.reply)
            /\ m.tense_until_ts = hbCall.at + tense_hold_seconds
            /\ hbStore[hbCall.scope] = RowOf(m)

\* C19, amended: the focus is trim(trigger) + " " + trim(reply), trimmed again,
\* so that a blank reply leaves the trimmed trigger alone; the heartbeat stays
\* as it was.
C19_FocusIsMergedAndTrimmed ==
    hbCall.op = "on_llm_invoked" =>
        LET m == monitors[hbCall.scope]
        IN  /\ m.tense
            /\ m.focus_text = Strip(Strip(hbCall.message) \o <<" ">> \o Strip(hbCall.reply))
            /\ (Strip(hbCall.reply) # <<>> =>
                   m.focus_text = Strip(hbCall.message) \o <<" ">> \o Strip(hbCall.reply))
            /\ (Strip(hbCall.reply) = <<>> => m.focus_text = Strip(hbCall.message))
            /\ m.tense_until_ts = hbCall.at + tense_hold_seconds
            /\ m.tense_until_ts > hbCall.at
            /\ m.heartbeat = hbCall.pre.heartbeat
            /\ hbStore[hbCall.scope] = RowOf(m)

\* on_llm_invoked came with a blank reply on a scope whose hold was over.
C19_Witness ==
    /\ hbCall.op = "on_llm_invoked"
    /\ hbCall.reply = MsgBlank
    /\ hbCall.message = MsgAbPadded
    /\ ExpiredBefore
    /\ monitors[hbCall.scope].focus_text = <<"A", "B">>

\* C20: an empty or blank message, directed or not, is declined, and leaves the
\* state of the monitor and the row of the scope as they were; no value is
\* drawn.
C20_EmptyMessageChangesNothing ==
    (hbCall.op = "should_invoke_llm" /\ Strip(hbCall.message) = <<>>) =>
        /\ ~hbCall.result
        /\ monitors[hbCall.scope] = hbCall.pre
        /\ hbStore[hbCall.scope] = hbCall.preRow
        /\ ~hbCall.persisted
        /\ hbCall.draws = 0

\* A directed blank message came to a scope whose hold was over, and the stale
\* state stayed.
C20_Witness ==
    /\ hbCall.op = "should_invoke_llm"
    /\ hbCall.message = MsgBlank
    /\ hbCall.is_at_message
    /\ ExpiredBefore
    /\ monitors[hbCall.scope].tense

\* ------------------------------------------------- AgentService: more claims

\* An object with a boolean should_reply and a reply that is a string or null.
IsReplyPayload(v) ==
    /\ v.t = "dict"
    /\ Get(v, "should_reply").t = "bool"
    /\ Get(v, "reply").t \in {"str", "null"}

RECURSIVE PayloadsIn(_)
\* Every such object inside a value, at any depth.
PayloadsIn(v) ==
    IF v.t = "dict"
    THEN (IF IsReplyPayload(v) THEN {v} ELSE {})
         \cup UNION {PayloadsIn(v.items[i][2]) : i \in 1..Len(v.items)}
    ELSE IF v.t = "list" THEN UNION {PayloadsIn(v.xs[i]) : i \in 1..Len(v.xs)}
    ELSE {}

\* The text blocks of the result's content list that hold JSON.
JsonTextBlocks(tool_result) ==
    IF tool_result.t = "dict" /\ Get(tool_result, "content").t = "list"
    THEN LET content == Get(tool_result, "content").xs
         IN  {JsonLoads(Get(content[i], "text").s).value :
                 i \in {j \in 1..Len(content) :
                           /\ content[j].t = "dict"
                           /\ Get(content[j], "text").t = "str"
                           /\ JsonLoads(Get(content[j], "text").s).ok}}
    ELSE {}

EmbeddedPayloads(tool_result) ==
    PayloadsIn(tool_result) \cup UNION {PayloadsIn(v) : v \in JsonTextBlocks(tool_result)}

PayloadReply(p) ==
    IF ~Get(p, "should_reply").b THEN <<>>
    ELSE IF Get(p, "reply").t = "str" THEN Strip(Get(p, "reply").s) ELSE <<>>

ContentReply(arguments) ==
    IF Get(arguments, "content").t = "str" THEN Strip(Get(arguments, "content").s) ELSE <<>>

TerminalReturn == LoopReturned /\ TerminalCallSucceeded

\* C21: on a successful terminal call, a payload embedded in the tool result
\* decides the result ("" when its should_reply is false, its trimmed reply
\* otherwise) whatever the arguments say; without a payload the arguments
\* decide: "" if arguments.should_reply is false, else the trimmed content
\* ("" if it is not a string), a missing should_reply counting as true.
C21_PayloadThenArgumentsIfNotFalse ==
    TerminalReturn =>
        LET payloads == EmbeddedPayloads(round.outcome.value)
            arguments == ArgumentsOf(round.parsed)
        IN  IF payloads # {}
            THEN \E p \in payloads : result = PayloadReply(p)
            ELSE result = IF Get(arguments, "should_reply") = JBool(FALSE)
                          THEN <<>> ELSE ContentReply(arguments)

\* C21 as amended: without a payload, the result is "" when arguments carry a
\* should_reply that is false in the sense of bool() (false, null, 0, "", an
\* empty list or dict), else the trimmed content.
C21_PayloadThenArgumentsIfTruthy ==
    TerminalReturn =>
        LET payloads == EmbeddedPayloads(round.outcome.value)
            arguments == ArgumentsOf(round.parsed)
        IN  IF payloads # {}
            THEN \E p \in payloads : result = PayloadReply(p)
            ELSE result = IF /\ HasKey(arguments, "should_reply")
                             /\ ~Truthy(Get(arguments, "should_reply"))
                          THEN <<>> ELSE ContentReply(arguments)

\* A terminal call whose result carries should_reply = false in a text block
\* while the arguments say should_reply = true: the loop returned "".
C21_Witness ==
    /\ TerminalReturn
    /\ PayloadsIn(round.outcome.value) = {}
    /\ EmbeddedPayloads(round.outcome.value) # {}
    /\ Get(ArgumentsOf(round.parsed), "should_reply") = JBool(TRUE)
    /\ ContentReply(ArgumentsOf(round.parsed)) # <<>>
    /\ result = <<>>

LegacyFinal == JDict(<< <<"type", JStr(<<"final">>)>>, <<"content", JStr(TextHi)>> >>)

\* The output of a round yields no JSON object, or one whose type is not
\* "tool_call", or whose tool is missing, not a string, or blank.
BreaksProtocol(parsed) ==
    \/ parsed.t # "dict"
    \/ Get(parsed, "type") # JStr(<<"tool_call">>)
    \/ Get(parsed, "tool").t # "str"
    \/ \A i \in 1..Len(Get(parsed, "tool").s) : Get(parsed, "tool").s[i] \in Whitespace

CorrectionPrompts == {"not_json", "bad_type", "no_tool"}

\* A round of the loop was taken in this step.
RoundTaken == pc = "loop" /\ gen_calls' = gen_calls + 1

\* C22: a round whose output breaks the protocol calls no tool, does not end
\* the loop, counts as one round of the budget, and leaves a protocol
\* correction as the next prompt; so a legacy {type: "final", content} object
\* never makes its content the result.
C22_ProtocolViolationReprompts ==
    [][ (RoundTaken /\ BreaksProtocol(round'.parsed)) =>
            /\ tool_calls' = tool_calls
            /\ step' = step + 1
            /\ step' <= max_steps
            /\ pc' = "loop"
            /\ result' = NoResult
            /\ prompt' \in CorrectionPrompts
            /\ (round'.parsed = LegacyFinal => prompt' = "bad_type") ]_vars

\* The second round answered in the legacy final shape and the loop goes on
\* with the correction about type.
C22_Witness ==
    /\ pc = "loop"
    /\ step = 2
    /\ round.parsed = LegacyFinal
    /\ prompt = "bad_type"
    /\ tool_calls = 1
    /\ result = NoResult

NamesTerminalTool(parsed) ==
    ~BreaksProtocol(parsed) /\ Get(parsed, "tool").s = final_reply_tool

\* What a successful terminal call gives, by payload or else by arguments.
TerminalReplies(tool_result, arguments) ==
    IF EmbeddedPayloads(tool_result) # {}
    THEN {PayloadReply(p) : p \in EmbeddedPayloads(tool_result)}
    ELSE {IF HasKey(arguments, "should_reply") /\ ~Truthy(Get(arguments, "should_reply"))
          THEN <<>> ELSE ContentReply(arguments)}

\* C23: a round whose tool call raises MCPError, the terminal tool included,
\* does not end the loop: it counts as one round and one tool call, the next
\* prompt explains the failure, and a successful terminal call in the round
\* after it, within the budget, gives the reply.
C23_ToolFailureContinues ==
    [][ /\ (RoundTaken /\ round'.outcome.raised) =>
              /\ pc' = "loop"
              /\ result' = NoResult
              /\ prompt' = "tool_failed"
              /\ step' = step + 1
              /\ step' <= max_steps
              /\ tool_calls' = tool_calls + 1
        /\ ( /\ RoundTaken
             /\ round.outcome.raised
             /\ NamesTerminalTool(round'.parsed)
             /\ ~round'.outcome.raised ) =>
              /\ pc' = "done"
              /\ step' <= max_steps
              /\ result' \in TerminalReplies(round'.outcome.value, ArgumentsOf(round'.parsed)) ]_vars

\* The call of the terminal tool raised MCPError in the second round; the loop
\* is still running, with one round of its budget left.
C23_Witness ==
    /\ pc = "loop"
    /\ round.outcome.raised
    /\ NamesTerminalTool(round.parsed)
    /\ step = 2
    /\ max_steps = 3
    /\ tool_calls = 2
    /\ prompt = "tool_failed"
    /\ result = NoResult

\* ------------------------------------------------- MessageWorkflow: more claims

\* A process call started in this step.
CallStarted == wfCalls' = wfCalls + 1

EngineAndStoreUnchanged ==
    UNCHANGED <<monitors, created, hbStore, records_by_scope, recent_context_by_scope>>

\* C24: a free-text message that should_process_message rejects gets one
\* adapter.ignore with reason group_not_allowed and None; no decision, no
\* context call and no generation call is made and the engagement state, the
\* store, the logs and the windows stay as they were. This holds for an empty
\* message too: admission is checked first.
C24_RejectedGroupIsIgnored ==
    [][ ( /\ CallStarted
          /\ wf'.command = ""
          /\ ~should_process_message(wf'.source, wf'.group_id) ) =>
            /\ wfTrace' = <<"adapter.ignore">>
            /\ wf'.reason = "group_not_allowed"
            /\ wfResult' = Returned("none", <<>>)
            /\ wfPc' = "done"
            /\ \A h \in hooks : hook_seen'[h] = 1
            /\ EngineAndStoreUnchanged ]_vars

\* An empty message from a group that is not on the list was ignored for its
\* group.
C24_Witness ==
    /\ wfPc = "done"
    /\ wf.command = ""
    /\ wf.source = SourceQQGroup
    /\ wf.group_id = 2
    /\ wf.empty
    /\ wf.reason = "group_not_allowed"
    /\ wfTrace = <<"adapter.ignore">>

\* C25: a call with a command returns what handle_structured returns and emits
\* router.command, and nothing else: no admission, no decision, no context
\* call, no generation call, whatever the other arguments are.
C25_CommandBypassesPipeline ==
    [][ (CallStarted /\ wf'.command # "") =>
            /\ wfTrace' = <<"handle_structured", "router.command">>
            /\ wfResult' = Returned("command", handle_structured(wf'.command))
            /\ wfPc' = "done"
            /\ wf'.reason = ""
            /\ \A h \in hooks : hook_seen'[h] = 1
            /\ EngineAndStoreUnchanged ]_vars

\* The second call was a command that is not known, after a first call that
\* was answered.
C25_Witness ==
    /\ wfPc = "done"
    /\ wfCalls = 2
    /\ wf.command = "sing"
    /\ wfResult = Returned("command", <<"unsupported:", "sing">>)
    /\ wfTrace = <<"handle_structured", "router.command">>
    /\ \E k \in ScopeKeys : monitors[k].tense /\ hbStore[k].exists

\* The tense flag heartbeat_snapshot reads before the decision.
TenseBeforeDecision ==
    LET key == normalize_scope(wf.scope)
    IN  IF key \in created THEN monitors[key].tense
        ELSE LoadMonitor(hbStore[key], now).tense

\* C26: the reply mode of a call is "tense" exactly when the message is directed
\* or the scope was tense before the decision, and "auto" otherwise; it is the
\* mode the generation call is made with.
C26_ReplyModeFromBefore ==
    [][ /\ (wfPc = "decide" /\ wfPc' \in {"compose", "declined"}) =>
              /\ wf'.reply_mode \in {"tense", "auto"}
              /\ (wf'.reply_mode = "tense") <=> (wf.at_user \/ TenseBeforeDecision)
        /\ wfPc \in {"compose", "generate"} => wf'.reply_mode = wf.reply_mode ]_vars

\* The first passive message of a fresh scope was engaged by the draw: the
\* scope is tense now, and the generation call was made in auto mode.
C26_Witness ==
    /\ wf.admitted
    /\ wf.generated
    /\ ~wf.at_user
    /\ wf.preLog = <<>>
    /\ ~wf.was_tense_before
    /\ wf.decided.tense
    /\ wf.reply_mode = "auto"

\* ------------------------------------------------- MessageWorkflow: failures

Events ==
    {"router.command", "adapter.ignore", "adapter.captured", "heartbeat.checked",
     "context.user_recorded", "context.composed", "workflow.no_reply", "workflow.replied"}

EventsEmitted == Cardinality({i \in 1..Len(wfTrace) : wfTrace[i] \in Events})

\* C27: whichever hooks raise in on_event, every hook is handed every event of
\* the call, no call ends by an exception at an emission, and the call goes
\* on to the result its decision and its reply determine.
C27_HookFailuresContained ==
    /\ \A h \in hooks : hook_seen[h] = EventsEmitted
    /\ wfResult.kind = "raised" => wfTrace[Len(wfTrace)] \notin Events
    /\ (wfPc = "done" /\ wf.admitted /\ wfResult.kind # "raised") =>
           /\ wfTrace[Len(wfTrace)] \in Events
           /\ wfResult = IF wf.should_reply /\ wf.generated /\ Strip(wf.reply) # <<>>
                         THEN Returned("reply", wf.reply)
                         ELSE Returned("none", <<>>)
           /\ wf.should_reply => wf.generated

\* The first hook raised at each of the four events of an answered call; the
\* second hook got all four and the reply was returned.
C27_Witness ==
    /\ raising_hooks = {1}
    /\ wfPc = "done"
    /\ wfResult = Returned("reply", ReplyCdPadded)
    /\ hook_seen[2] = 4
    /\ wfTrace[Len(wfTrace)] = "workflow.replied"

\* C28: a failure of HeartbeatSQLiteStore.load or save does not leave process:
\* the call ends with the result of its decision, None or the reply.
C28_StoreFailureContained ==
    store_down =>
        /\ wfResult.kind # "raised"
        /\ (wfPc = "done" /\ wf.admitted) => wfResult.kind \in {"none", "reply"}

\* ------------------------------------------------- ContextEngine: concurrency

\* What the log and the window of the scope are after the two calls, one after
\* the other in the order <<a, b>>.
SerialOutcome(a, b) ==
    LET c0 == [records |-> [k \in ScopeKeys |-> IF k = ScopeGroup1 THEN log0 ELSE <<>>],
               recent |-> [k \in ScopeKeys |-> NotLoaded]]
        c1 == remember(c0, recent_limit, threads[a].item, ScopeGroup1, TRUE)
        c2 == remember(c1, recent_limit, threads[b].item, ScopeGroup1, TRUE)
    IN  [log |-> c2.records[ScopeGroup1], window |-> c2.recent[ScopeGroup1].items]

\* C29: when two calls for one scope run at the same time, the log and the
\* window they leave are those of the two calls run one after the other, in
\* one of the two orders.
C29_ConcurrentCallsSerialize ==
    (\A t \in {1, 2} : threads[t].pc = "done" /\ threads[t].item # <<>>) =>
        \E order \in {<<1, 2>>, <<2, 1>>} :
            /\ records_by_scope[ScopeGroup1] = SerialOutcome(order[1], order[2]).log
            /\ heap[window_ref] = SerialOutcome(order[1], order[2]).window

\* ------------------------------------------------- MemoryPool: restart

\* C30: a new MemoryPool on the same directory holds, for every scope, the
\* records the old one held, in the same order.
C30_RestartKeepsRecords ==
    [][ (ctxCalls' = ctxCalls + 1 /\ ctxCall'.op = "restart") =>
            records_by_scope' = records_by_scope ]_vars

\* A pool restarted after two appends to one scope, the first a value with a
\* newline and a quote in it, on a directory that held a file with lines to
\* skip.
C30_Witness ==
    /\ ctxCall.op = "restart"
    /\ ctxCalls = 3
    /\ Len(records_by_scope[ScopeGroup1]) = 2
    /\ records_by_scope[ScopeGroup1][1] = <<"A", "\n", "\"", "B">>
    /\ records_by_scope[ScopeDefault] = << <<"o", "k">> >>
    /\ files_by_scope[ScopeDefault][1] = "\n"

\* ------------------------------------------------- HeartbeatMonitor: restart

\* The last call was one that has to persist: on_llm_invoked, or
\* should_invoke_llm on a message that is not empty after strip().
PersistingCall ==
    \/ hbCall.op = "on_llm_invoked"
    \/ hbCall.op = "should_invoke_llm" /\ Strip(hbCall.message) # <<>>

\* The hold the monitor m has stored is over at time t.
HoldOver(m, t) == m.tense /\ m.tense_until_ts > 0 /\ t >= m.tense_until_ts

\* C31: after a call that has to persist, the row of the scope holds the
\* heartbeat, flag, focus and deadline the monitor has in memory, and a monitor
\* constructed on that row at any later time starts from that state, or from
\* the idle state if the stored hold is over by then.
C31_PersistedEqualsMemory ==
    PersistingCall =>
        LET m == monitors[hbCall.scope]
        IN  /\ hbStore[hbCall.scope] = RowOf(m)
            /\ \A t \in now..(MaxTime + tense_hold_seconds + 1) :
                  LoadMonitor(hbStore[hbCall.scope], t) =
                      IF HoldOver(m, t) THEN IdleMonitor ELSE m

\* A directed message started a hold at time 1 which is over now: a monitor
\* constructed now starts idle, not from the stored row.
C31_Witness ==
    /\ hbCall.op = "should_invoke_llm"
    /\ hbCall.is_at_message
    /\ hbCall.message = MsgAbPadded
    /\ hbCall.preRow.heartbeat = 130
    /\ now = 3
    /\ hbStore[hbCall.scope].tense_until_ts = 3
    /\ hbStore[hbCall.scope].focus_text = <<"A", "B">>
    /\ LoadMonitor(hbStore[hbCall.scope], now) = IdleMonitor

\* ------------------------------------------------- ContextEngine: keys, claims

\* C32: the key of the log, of the window, of the registry and of the stored
\* engagement state that a call uses is the normalized form of the scope it
\* was given, also when the monitor is the template handed in at construction;
\* normalizing a normalized scope changes nothing.
C32_KeysAreNormalized ==
    /\ \A scope \in CtxScopes :
          normalize_scope(normalize_scope(scope)) = normalize_scope(scope)
    /\ \A key \in {keyCall.registry_key, keyCall.store_key, keyCall.window_key,
                   keyCall.log_key} \ {None} :
          key = normalize_scope(keyCall.scope)

\* ------------------------------------------------- MessageWorkflow: scopes

RECURSIVE OccursInOrder(_, _)
\* The texts of `items` occur in `text` one after the other, in that order.
OccursInOrder(text, items) ==
    IF items = <<>> THEN TRUE
    ELSE LET item == Head(items)
             at == {i \in 1..(Len(text) - Len(item) + 1) :
                       SubSeq(text, i, i + Len(item) - 1) = item}
         IN  /\ at # {}
             /\ LET first == CHOOSE i \in at : \A j \in at : i <= j
                IN  OccursInOrder(SubSeq(text, first + Len(item), Len(text)), Tail(items))

\* C34: compose_input returns the message as it was given exactly when the
\* window of the scope is empty; otherwise what it returns holds the entries of
\* the window, oldest first, and ends with the message; the call adds nothing
\* to the log or to the window.
C34_ComposeInput ==
    [][ (ctxCalls' = ctxCalls + 1 /\ ctxCall'.op = "compose_input") =>
            LET msg == ctxCall'.msg
                key == normalize_scope(ctxCall'.scope)
                window == recent_context(CtxState, recent_limit, ctxCall'.scope).recent[key].items
                text == compose_input(CtxState, recent_limit, msg, ctxCall'.scope).text
            IN  /\ (text = msg) <=> (window = <<>>)
                /\ window # <<>> =>
                      /\ Len(text) > Len(msg)
                      /\ SubSeq(text, Len(text) - Len(msg) + 1, Len(text)) = msg
                      /\ OccursInOrder(SubSeq(text, 1, Len(text) - Len(msg)), window)
                /\ records_by_scope' = records_by_scope
                /\ recent_context_by_scope'[key].items = window ]_vars

\* compose_input for qq_group_1 with two entries in the window, the older a
\* record of the log on disk, and a padded message.
C34_Witness ==
    /\ ctxCall.op = "compose_input"
    /\ ctxCall.msg = MsgAbPadded
    /\ recent_limit = 2
    /\ recent_context_by_scope[ScopeGroup1].items = <<MsgTian, UserPrefix \o <<"A", "B">> >>
    /\ compose_input(CtxState, recent_limit, ctxCall.msg, ScopeGroup1).text =
           <<"[you may use this memory]", "\n", "[memory:]", "\n", "u5929", "\n">>
               \o UserPrefix \o <<"A", "B", "\n", "[current input:]", "\n">> \o MsgAbPadded

\* ------------------------------------------------- AgentService: _parse_json, claims

\* C35: for an output that holds a block
\* [TOOL_CALL]{tool => "emit_reply", arguments => {...}}[/TOOL_CALL] around a
\* valid JSON object, _parse_json returns type "tool_call", tool "emit_reply"
\* and that object as arguments; an output that is a JSON object as a whole is
\* returned as json.loads gives it, whatever it quotes.
C35_BlockIsRepaired ==
    parsed_output # NotParsed =>
        /\ llm_output.arguments # NoArguments =>
              /\ parsed_output.t = "dict"
              /\ Get(parsed_output, "type") = JStr(<<"tool_call">>)
              /\ Get(parsed_output, "tool") = JStr(final_reply_tool)
              /\ Get(parsed_output, "arguments") = json_loads(llm_output.arguments).value
        /\ LET whole == json_loads(Strip(llm_output.text))
           IN  (whole.ok /\ whole.value.t = "dict") => parsed_output = whole.value

\* ------------------------------------------------- HeartbeatMonitor: passive runs

\* C36: from the idle state with heartbeat 0, passive messages that are not
\* empty are declined at the heartbeats 6, 8, ..., at most 47 times in a row,
\* whatever is drawn: the 48th message is evaluated at the heartbeat 100 and
\* engages.
C36_EngagesWithinBound ==
    LET m == monitors[hbCall.scope]
    IN  /\ hbCalls <= 48
        /\ (hbCalls >= 1 /\ ~hbCall.result) =>
              /\ hbCalls <= 47
              /\ ~m.tense
              /\ m.heartbeat = 6 + 2 * (hbCalls - 1)
        /\ hbCalls = 48 =>
              /\ hbCall.result
              /\ m.heartbeat = max_heartbeat
              /\ hbCall.pre.heartbeat = 98

\* 47 messages were declined, the last at the heartbeat 98, and the 48th
\* engaged on the largest draw.
C36_Witness ==
    /\ hbCalls = 48
    /\ hbCall.result
    /\ hbCall.r = 99
    /\ hbCall.pre.heartbeat = 98
    /\ ~hbCall.pre.tense
    /\ monitors[hbCall.scope].tense

\* ------------------------------------------------- MessageWorkflow: tense without hold

\* The monitor of the scope of the running call as the decision finds it: the
\* registered one, or the one the engine creates from the stored row.
MonitorAtDecision ==
    LET key == normalize_scope(wf.scope)
    IN  IF key \in created THEN monitors[key] ELSE LoadMonitor(hbStore[key], now)

\* C37: a passive message for a scope that is tense with tense_until_ts = 0 is
\* declined and the scope is reset to idle, in memory and in the store, without
\* a draw and whether or not the message is related to the focus; so the
\* passive message that follows a probabilistic engagement with an empty reply
\* is declined.
C37_TenseWithoutHoldDeclines ==
    [][ (/\ wfPc = "decide"
         /\ wfPc' # "decide"
         /\ ~wf.at_user
         /\ MonitorAtDecision.tense
         /\ MonitorAtDecision.tense_until_ts = 0) =>
            LET key == normalize_scope(wf.scope)
            IN  /\ \A r \in Draws :
                      LET out == should_invoke_llm(MonitorAtDecision, wf.clean, FALSE, now, r)
                      IN  ~out.result /\ out.draws = 0 /\ out.mon = IdleMonitor
                /\ wfPc' = "declined"
                /\ ~wf'.should_reply
                /\ monitors'[key] = IdleMonitor
                /\ hbStore'[key] = RowOf(IdleMonitor) ]_vars

\* The second call of the default scope, a passive message at time 1, has been
\* declined although the scope was tense and the message repeats the focus: the
\* first call, whose message is the only record of the log, engaged on a draw
\* and no reply came of it.
C37_Witness ==
    /\ wfCalls = 2
    /\ wfPc = "declined"
    /\ now = 1
    /\ ~wf.at_user
    /\ wf.was_tense_before
    /\ ~wf.should_reply
    /\ wf.decided = IdleMonitor
    /\ normalize_scope(wf.scope) = ScopeDefault
    /\ wf.preLog = <<UserPrefix \o <<"A", "B">> >>
    /\ wf.clean = <<"A", "B">>

\* ------------------------------------------------- HeartbeatMonitor: fresh monitors

\* C38: a monitor that started without a stored row is, after any calls,
\* without focus and without deadline when it is not tense, and tense when it
\* has a deadline.
C38_FlagFocusDeadline ==
    \A scope \in created :
        LET m == monitors[scope]
        IN  /\ ~m.tense => (m.focus_text = <<>> /\ m.tense_until_ts = 0)
            /\ m.tense_until_ts > 0 => m.tense

\* A hold that a first call started has expired and the second call, a passive
\* message, reset the monitor.
C38_Witness ==
    /\ hbCalls = 2
    /\ hbCall.op = "should_invoke_llm"
    /\ hbCall.pre.tense
    /\ hbCall.pre.tense_until_ts > 0
    /\ hbCall.pre.focus_text # <<>>
    /\ hbCall.preRow.exists
    /\ ~monitors[hbCall.scope].tense
    /\ monitors[hbCall.scope].heartbeat > 0

\* ------------------------------------------------- MessageWorkflow: the log

HasPrefix(record, prefix) ==
    Len(record) >= Len(prefix) /\ SubSeq(record, 1, Len(prefix)) = prefix

\* Every assistant record of every log comes right after a user record.
AssistantFollowsUser ==
    \A k \in ScopeKeys :
        \A i \in 1..Len(records_by_scope[k]) :
            HasPrefix(records_by_scope[k][i], AssistantPrefix) =>
                i > 1 /\ HasPrefix(records_by_scope[k][i - 1], UserPrefix)

\* C39: with process calls one after the other, an assistant record of a log
\* comes right after the user record of the message it answers, so no two
\* assistant records are adjacent; and a call adds one user record to the log
\* of its scope when its message is admitted free text that is not empty,
\* whether or not the engine engaged, and none otherwise.
C39_LogStructure ==
    [][ /\ AssistantFollowsUser'
        /\ ~wf'.admitted => records_by_scope' = records_by_scope
        /\ (wfPc' = "done" /\ wf'.admitted) =>
              /\ AddedToLog' \in {<<UserItem'>>, <<UserItem', AssistantItem'>>}
              /\ Len(AddedToLog') = 2 <=> wfResult'.kind = "reply"
              /\ \A k \in ScopeKeys \ {WfKey'} :
                    Len(records_by_scope'[k]) = Len(records_by_scope[k]) ]_vars

\* The second call for qq_group_1 has returned a reply: the log that held a
\* user record, an assistant record and another record has the user record of
\* the first call, which was declined, and then those of this call.
C39_Witness ==
    /\ wfCalls = 2
    /\ wfPc = "done"
    /\ wfResult.kind = "reply"
    /\ WfKey = ScopeGroup1
    /\ Len(records_by_scope[ScopeGroup1]) = 6
    /\ HasPrefix(records_by_scope[ScopeGroup1][4], UserPrefix)
    /\ HasPrefix(records_by_scope[ScopeGroup1][5], UserPrefix)
    /\ records_by_scope[ScopeGroup1][6] = AssistantItem

\* ------------------------------------------------- Router: claims

\* C40: should_process_message admits every message whose source is not
\* qq_group; of the qq_group messages it admits all when the allow-list is
\* empty, and otherwise those whose group_id is in the list, so that a message
\* without a group_id is rejected.
C40_ShouldProcessMessage ==
    routerCall.asked =>
        routerCall.result =
            (\/ routerCall.source # SourceQQGroup
             \/ router_allowed_group_ids = {}
             \/ /\ routerCall.group_id # NoGroup
                /\ routerCall.group_id \in router_allowed_group_ids)

\* A qq_group message without a group_id was rejected by a router whose
\* allow-list is {1, 2}.
C40_Witness ==
    /\ routerCall.asked
    /\ routerCall.source = SourceQQGroup
    /\ routerCall.group_id = NoGroup
    /\ router_allowed_group_ids = {1, 2}
    /\ ~routerCall.result

====
